---- MODULE Spec2Model ----
(***************************************************************************)
(* Model of the procedural jingle synthesizer and its playback controller  *)
(* (src/src/lib/audioSynth.ts), of the tempo clamp of the generation        *)
(* request (src/src/lib/gemini.ts) and of the page's generate and           *)
(* play/stop handlers.                                                      *)
(*                                                                         *)
(* Units.  Wall-clock and audio-clock times are integers in milliseconds   *)
(* (durationMs = durationSeconds * 1000).  Offsets and durations of the    *)
(* scheduled notes are integers in hundredths of a beat ("centibeats"):    *)
(* every offset the code computes is a multiple of beatDuration/100, so    *)
(* the grid is exact for every tempo.  Frequencies are integers in 1/10000 *)
(* Hz, gains in 1/10000, detune in 1/100 cent.  A Math.random() result is  *)
(* an integer 0..99 standing for the hundredths r/100 in [0,1).            *)
(* Strings are sequences of one-character strings.  Angles are integers in  *)
(* 1/100 radian and sines and waveform amplitudes in 1/1000; numbers of a   *)
(* model response are integers in tenths.                                   *)
(***************************************************************************)
EXTENDS Integers, Sequences, FiniteSets, TLC

VARIABLES activeCtx, sessions, last, page

vars == <<activeCtx, sessions, last, page>>

\* ---------------------------------------------------------------- bounds

\* Number of playJingle calls in one behaviour of the lifecycle model.
MaxSessions == 2

\* Number of playJingle calls in one behaviour of the arrangement model.
ArrMaxSessions == 1

\* Number of playJingle calls in one behaviour of the style model.
StyleMaxSessions == 1

\* Number of playJingle calls in one behaviour of the page model.
PageMaxSessions == 1

\* Number of tone chips of the page the tone model clicks on.
ChipCount == 5

\* Number of playJingle calls in one behaviour of the play/stop model.
ClickMaxSessions == 2

\* Largest number of samples asked of generateWaveformData in the waveform model.
MaxSamples == 3

\* Time, in ms, for which the model follows the audio clock of a running
\* context past the time its completion timer is due (for a context without
\* a timer: past its creation).
ClockSlackMs == 2200

\* --------------------------------------------------------- program constants

\* setInterval period of the progress notifier, ms.
TickMs == 100

\* Grace period added to the completion timer, ms.
GraceMs == 200

\* Default durationSeconds, in ms.
DefaultDurationMs == 12000

\* Length of the fade-out before the end of the jingle, ms.
FadeMs == 1500

\* Length of the jingles of the lifecycle model, ms.
ShortDurationMs == 2 * 1000

\* Length of a jingle too short for its fade-out, ms.
TooShortDurationMs == 1 * 1000

\* Length of a jingle into which three bars at 150 bpm fit exactly, ms.
ThreeBarDurationMs == 48 * 100

\* "No context": the value null of activeCtx.
NULL == 0

\* ------------------------------------------------------------- strings

Min(a, b) == IF a < b THEN a ELSE b

Upper == <<"A","B","C","D","E","F","G","H","I","J","K","L","M",
           "N","O","P","Q","R","S","T","U","V","W","X","Y","Z">>

Lower == <<"a","b","c","d","e","f","g","h","i","j","k","l","m",
           "n","o","p","q","r","s","t","u","v","w","x","y","z">>

\* ------------------------------------------------- Unicode case tables
\* A character of a string is a UTF-16 code unit.  The printable ASCII ones
\* are written as themselves (the backtick as Backtick), "\t" and "\n" are
\* the tab and the line feed, and every other unit is written "U+XXXX" with
\* its four hexadecimal digits; a code point above U+FFFF is its two
\* surrogate units.  The tables are those of Unicode 17, the version of the
\* engines that run the page today.

\* U+0060, the backtick: one character.
Backtick == "U+0060"

\* The ASCII characters, the tab and the line feed.
Ascii ==
    {"\t", "\n",
     " ", "!", "\"", "#", "$", "%", "&", "'", "(", ")", "*", "+", ",", "-", ".", "/", "0", "1",
     "2", "3", "4", "5", "6", "7", "8", "9", ":", ";", "<", "=", ">", "?", "@", "A", "B", "C",
     "D", "E", "F", "G", "H", "I", "J", "K", "L", "M", "N", "O", "P", "Q", "R", "S", "T", "U",
     "V", "W", "X", "Y", "Z", "[", "\\", "]", "^", "_", Backtick, "a", "b", "c", "d", "e", "f",
     "g", "h", "i", "j", "k", "l", "m", "n", "o", "p", "q", "r", "s", "t", "u", "v", "w", "x",
     "y", "z", "{", "|", "}", "~"}

\* toLowerCase on the code units above U+007F that it changes, standing
\* alone: each with the code units it becomes.
LowerPairs ==
    {<<"U+00C0", <<"U+00E0">>>>, <<"U+00C1", <<"U+00E1">>>>, <<"U+00C2", <<"U+00E2">>>>,
     <<"U+00C3", <<"U+00E3">>>>, <<"U+00C4", <<"U+00E4">>>>, <<"U+00C5", <<"U+00E5">>>>,
     <<"U+00C6", <<"U+00E6">>>>, <<"U+00C7", <<"U+00E7">>>>, <<"U+00C8", <<"U+00E8">>>>,
     <<"U+00C9", <<"U+00E9">>>>, <<"U+00CA", <<"U+00EA">>>>, <<"U+00CB", <<"U+00EB">>>>,
     <<"U+00CC", <<"U+00EC">>>>, <<"U+00CD", <<"U+00ED">>>>, <<"U+00CE", <<"U+00EE">>>>,
     <<"U+00CF", <<"U+00EF">>>>, <<"U+00D0", <<"U+00F0">>>>, <<"U+00D1", <<"U+00F1">>>>,
     <<"U+00D2", <<"U+00F2">>>>, <<"U+00D3", <<"U+00F3">>>>, <<"U+00D4", <<"U+00F4">>>>,
     <<"U+00D5", <<"U+00F5">>>>, <<"U+00D6", <<"U+00F6">>>>, <<"U+00D8", <<"U+00F8">>>>,
     <<"U+00D9", <<"U+00F9">>>>, <<"U+00DA", <<"U+00FA">>>>, <<"U+00DB", <<"U+00FB">>>>,
     <<"U+00DC", <<"U+00FC">>>>, <<"U+00DD", <<"U+00FD">>>>, <<"U+00DE", <<"U+00FE">>>>,
     <<"U+0100", <<"U+0101">>>>, <<"U+0102", <<"U+0103">>>>, <<"U+0104", <<"U+0105">>>>,
     <<"U+0106", <<"U+0107">>>>, <<"U+0108", <<"U+0109">>>>, <<"U+010A", <<"U+010B">>>>,
     <<"U+010C", <<"U+010D">>>>, <<"U+010E", <<"U+010F">>>>, <<"U+0110", <<"U+0111">>>>,
     <<"U+0112", <<"U+0113">>>>, <<"U+0114", <<"U+0115">>>>, <<"U+0116", <<"U+0117">>>>,
     <<"U+0118", <<"U+0119">>>>, <<"U+011A", <<"U+011B">>>>, <<"U+011C", <<"U+011D">>>>,
     <<"U+011E", <<"U+011F">>>>, <<"U+0120", <<"U+0121">>>>, <<"U+0122", <<"U+0123">>>>,
     <<"U+0124", <<"U+0125">>>>, <<"U+0126", <<"U+0127">>>>, <<"U+0128", <<"U+0129">>>>,
     <<"U+012A", <<"U+012B">>>>, <<"U+012C", <<"U+012D">>>>, <<"U+012E", <<"U+012F">>>>,
     <<"U+0130", <<"i", "U+0307">>>>, <<"U+0132", <<"U+0133">>>>, <<"U+0134", <<"U+0135">>>>,
     <<"U+0136", <<"U+0137">>>>, <<"U+0139", <<"U+013A">>>>, <<"U+013B", <<"U+013C">>>>,
     <<"U+013D", <<"U+013E">>>>, <<"U+013F", <<"U+0140">>>>, <<"U+0141", <<"U+0142">>>>,
     <<"U+0143", <<"U+0144">>>>, <<"U+0145", <<"U+0146">>>>, <<"U+0147", <<"U+0148">>>>,
     <<"U+014A", <<"U+014B">>>>, <<"U+014C", <<"U+014D">>>>, <<"U+014E", <<"U+014F">>>>,
     <<"U+0150", <<"U+0151">>>>, <<"U+0152", <<"U+0153">>>>, <<"U+0154", <<"U+0155">>>>,
     <<"U+0156", <<"U+0157">>>>, <<"U+0158", <<"U+0159">>>>, <<"U+015A", <<"U+015B">>>>,
     <<"U+015C", <<"U+015D">>>>, <<"U+015E", <<"U+015F">>>>, <<"U+0160", <<"U+0161">>>>,
     <<"U+0162", <<"U+0163">>>>, <<"U+0164", <<"U+0165">>>>, <<"U+0166", <<"U+0167">>>>,
     <<"U+0168", <<"U+0169">>>>, <<"U+016A", <<"U+016B">>>>, <<"U+016C", <<"U+016D">>>>,
     <<"U+016E", <<"U+016F">>>>, <<"U+0170", <<"U+0171">>>>, <<"U+0172", <<"U+0173">>>>,
     <<"U+0174", <<"U+0175">>>>, <<"U+0176", <<"U+0177">>>>, <<"U+0178", <<"U+00FF">>>>,
     <<"U+0179", <<"U+017A">>>>, <<"U+017B", <<"U+017C">>>>, <<"U+017D", <<"U+017E">>>>,
     <<"U+0181", <<"U+0253">>>>, <<"U+0182", <<"U+0183">>>>, <<"U+0184", <<"U+0185">>>>,
     <<"U+0186", <<"U+0254">>>>, <<"U+0187", <<"U+0188">>>>, <<"U+0189", <<"U+0256">>>>,
     <<"U+018A", <<"U+0257">>>>, <<"U+018B", <<"U+018C">>>>, <<"U+018E", <<"U+01DD">>>>,
     <<"U+018F", <<"U+0259">>>>, <<"U+0190", <<"U+025B">>>>, <<"U+0191", <<"U+0192">>>>,
     <<"U+0193", <<"U+0260">>>>, <<"U+0194", <<"U+0263">>>>, <<"U+0196", <<"U+0269">>>>,
     <<"U+0197", <<"U+0268">>>>, <<"U+0198", <<"U+0199">>>>, <<"U+019C", <<"U+026F">>>>,
     <<"U+019D", <<"U+0272">>>>, <<"U+019F", <<"U+0275">>>>, <<"U+01A0", <<"U+01A1">>>>,
     <<"U+01A2", <<"U+01A3">>>>, <<"U+01A4", <<"U+01A5">>>>, <<"U+01A6", <<"U+0280">>>>,
     <<"U+01A7", <<"U+01A8">>>>, <<"U+01A9", <<"U+0283">>>>, <<"U+01AC", <<"U+01AD">>>>,
     <<"U+01AE", <<"U+0288">>>>, <<"U+01AF", <<"U+01B0">>>>, <<"U+01B1", <<"U+028A">>>>,
     <<"U+01B2", <<"U+028B">>>>, <<"U+01B3", <<"U+01B4">>>>, <<"U+01B5", <<"U+01B6">>>>,
     <<"U+01B7", <<"U+0292">>>>, <<"U+01B8", <<"U+01B9">>>>, <<"U+01BC", <<"U+01BD">>>>,
     <<"U+01C4", <<"U+01C6">>>>, <<"U+01C5", <<"U+01C6">>>>, <<"U+01C7", <<"U+01C9">>>>,
     <<"U+01C8", <<"U+01C9">>>>, <<"U+01CA", <<"U+01CC">>>>, <<"U+01CB", <<"U+01CC">>>>,
     <<"U+01CD", <<"U+01CE">>>>, <<"U+01CF", <<"U+01D0">>>>, <<"U+01D1", <<"U+01D2">>>>,
     <<"U+01D3", <<"U+01D4">>>>, <<"U+01D5", <<"U+01D6">>>>, <<"U+01D7", <<"U+01D8">>>>,
     <<"U+01D9", <<"U+01DA">>>>, <<"U+01DB", <<"U+01DC">>>>, <<"U+01DE", <<"U+01DF">>>>,
     <<"U+01E0", <<"U+01E1">>>>, <<"U+01E2", <<"U+01E3">>>>, <<"U+01E4", <<"U+01E5">>>>,
     <<"U+01E6", <<"U+01E7">>>>, <<"U+01E8", <<"U+01E9">>>>, <<"U+01EA", <<"U+01EB">>>>,
     <<"U+01EC", <<"U+01ED">>>>, <<"U+01EE", <<"U+01EF">>>>, <<"U+01F1", <<"U+01F3">>>>,
     <<"U+01F2", <<"U+01F3">>>>, <<"U+01F4", <<"U+01F5">>>>, <<"U+01F6", <<"U+0195">>>>,
     <<"U+01F7", <<"U+01BF">>>>, <<"U+01F8", <<"U+01F9">>>>, <<"U+01FA", <<"U+01FB">>>>,
     <<"U+01FC", <<"U+01FD">>>>, <<"U+01FE", <<"U+01FF">>>>, <<"U+0200", <<"U+0201">>>>,
     <<"U+0202", <<"U+0203">>>>, <<"U+0204", <<"U+0205">>>>, <<"U+0206", <<"U+0207">>>>,
     <<"U+0208", <<"U+0209">>>>, <<"U+020A", <<"U+020B">>>>, <<"U+020C", <<"U+020D">>>>,
     <<"U+020E", <<"U+020F">>>>, <<"U+0210", <<"U+0211">>>>, <<"U+0212", <<"U+0213">>>>,
     <<"U+0214", <<"U+0215">>>>, <<"U+0216", <<"U+0217">>>>, <<"U+0218", <<"U+0219">>>>,
     <<"U+021A", <<"U+021B">>>>, <<"U+021C", <<"U+021D">>>>, <<"U+021E", <<"U+021F">>>>,
     <<"U+0220", <<"U+019E">>>>, <<"U+0222", <<"U+0223">>>>, <<"U+0224", <<"U+0225">>>>,
     <<"U+0226", <<"U+0227">>>>, <<"U+0228", <<"U+0229">>>>, <<"U+022A", <<"U+022B">>>>,
     <<"U+022C", <<"U+022D">>>>, <<"U+022E", <<"U+022F">>>>, <<"U+0230", <<"U+0231">>>>,
     <<"U+0232", <<"U+0233">>>>, <<"U+023A", <<"U+2C65">>>>, <<"U+023B", <<"U+023C">>>>,
     <<"U+023D", <<"U+019A">>>>, <<"U+023E", <<"U+2C66">>>>, <<"U+0241", <<"U+0242">>>>,
     <<"U+0243", <<"U+0180">>>>, <<"U+0244", <<"U+0289">>>>, <<"U+0245", <<"U+028C">>>>,
     <<"U+0246", <<"U+0247">>>>, <<"U+0248", <<"U+0249">>>>, <<"U+024A", <<"U+024B">>>>,
     <<"U+024C", <<"U+024D">>>>, <<"U+024E", <<"U+024F">>>>, <<"U+0370", <<"U+0371">>>>,
     <<"U+0372", <<"U+0373">>>>, <<"U+0376", <<"U+0377">>>>, <<"U+037F", <<"U+03F3">>>>,
     <<"U+0386", <<"U+03AC">>>>, <<"U+0388", <<"U+03AD">>>>, <<"U+0389", <<"U+03AE">>>>,
     <<"U+038A", <<"U+03AF">>>>, <<"U+038C", <<"U+03CC">>>>, <<"U+038E", <<"U+03CD">>>>,
     <<"U+038F", <<"U+03CE">>>>, <<"U+0391", <<"U+03B1">>>>, <<"U+0392", <<"U+03B2">>>>,
     <<"U+0393", <<"U+03B3">>>>, <<"U+0394", <<"U+03B4">>>>, <<"U+0395", <<"U+03B5">>>>,
     <<"U+0396", <<"U+03B6">>>>, <<"U+0397", <<"U+03B7">>>>, <<"U+0398", <<"U+03B8">>>>,
     <<"U+0399", <<"U+03B9">>>>, <<"U+039A", <<"U+03BA">>>>, <<"U+039B", <<"U+03BB">>>>,
     <<"U+039C", <<"U+03BC">>>>, <<"U+039D", <<"U+03BD">>>>, <<"U+039E", <<"U+03BE">>>>,
     <<"U+039F", <<"U+03BF">>>>, <<"U+03A0", <<"U+03C0">>>>, <<"U+03A1", <<"U+03C1">>>>,
     <<"U+03A3", <<"U+03C3">>>>, <<"U+03A4", <<"U+03C4">>>>, <<"U+03A5", <<"U+03C5">>>>,
     <<"U+03A6", <<"U+03C6">>>>, <<"U+03A7", <<"U+03C7">>>>, <<"U+03A8", <<"U+03C8">>>>,
     <<"U+03A9", <<"U+03C9">>>>, <<"U+03AA", <<"U+03CA">>>>, <<"U+03AB", <<"U+03CB">>>>,
     <<"U+03CF", <<"U+03D7">>>>, <<"U+03D8", <<"U+03D9">>>>, <<"U+03DA", <<"U+03DB">>>>,
     <<"U+03DC", <<"U+03DD">>>>, <<"U+03DE", <<"U+03DF">>>>, <<"U+03E0", <<"U+03E1">>>>,
     <<"U+03E2", <<"U+03E3">>>>, <<"U+03E4", <<"U+03E5">>>>, <<"U+03E6", <<"U+03E7">>>>,
     <<"U+03E8", <<"U+03E9">>>>, <<"U+03EA", <<"U+03EB">>>>, <<"U+03EC", <<"U+03ED">>>>,
     <<"U+03EE", <<"U+03EF">>>>, <<"U+03F4", <<"U+03B8">>>>, <<"U+03F7", <<"U+03F8">>>>,
     <<"U+03F9", <<"U+03F2">>>>, <<"U+03FA", <<"U+03FB">>>>, <<"U+03FD", <<"U+037B">>>>,
     <<"U+03FE", <<"U+037C">>>>, <<"U+03FF", <<"U+037D">>>>, <<"U+0400", <<"U+0450">>>>,
     <<"U+0401", <<"U+0451">>>>, <<"U+0402", <<"U+0452">>>>, <<"U+0403", <<"U+0453">>>>,
     <<"U+0404", <<"U+0454">>>>, <<"U+0405", <<"U+0455">>>>, <<"U+0406", <<"U+0456">>>>,
     <<"U+0407", <<"U+0457">>>>, <<"U+0408", <<"U+0458">>>>, <<"U+0409", <<"U+0459">>>>,
     <<"U+040A", <<"U+045A">>>>, <<"U+040B", <<"U+045B">>>>, <<"U+040C", <<"U+045C">>>>,
     <<"U+040D", <<"U+045D">>>>, <<"U+040E", <<"U+045E">>>>, <<"U+040F", <<"U+045F">>>>,
     <<"U+0410", <<"U+0430">>>>, <<"U+0411", <<"U+0431">>>>, <<"U+0412", <<"U+0432">>>>,
     <<"U+0413", <<"U+0433">>>>, <<"U+0414", <<"U+0434">>>>, <<"U+0415", <<"U+0435">>>>,
     <<"U+0416", <<"U+0436">>>>, <<"U+0417", <<"U+0437">>>>, <<"U+0418", <<"U+0438">>>>,
     <<"U+0419", <<"U+0439">>>>, <<"U+041A", <<"U+043A">>>>, <<"U+041B", <<"U+043B">>>>,
     <<"U+041C", <<"U+043C">>>>, <<"U+041D", <<"U+043D">>>>, <<"U+041E", <<"U+043E">>>>,
     <<"U+041F", <<"U+043F">>>>, <<"U+0420", <<"U+0440">>>>, <<"U+0421", <<"U+0441">>>>,
     <<"U+0422", <<"U+0442">>>>, <<"U+0423", <<"U+0443">>>>, <<"U+0424", <<"U+0444">>>>,
     <<"U+0425", <<"U+0445">>>>, <<"U+0426", <<"U+0446">>>>, <<"U+0427", <<"U+0447">>>>,
     <<"U+0428", <<"U+0448">>>>, <<"U+0429", <<"U+0449">>>>, <<"U+042A", <<"U+044A">>>>,
     <<"U+042B", <<"U+044B">>>>, <<"U+042C", <<"U+044C">>>>, <<"U+042D", <<"U+044D">>>>,
     <<"U+042E", <<"U+044E">>>>, <<"U+042F", <<"U+044F">>>>, <<"U+0460", <<"U+0461">>>>,
     <<"U+0462", <<"U+0463">>>>, <<"U+0464", <<"U+0465">>>>, <<"U+0466", <<"U+0467">>>>,
     <<"U+0468", <<"U+0469">>>>, <<"U+046A", <<"U+046B">>>>, <<"U+046C", <<"U+046D">>>>,
     <<"U+046E", <<"U+046F">>>>, <<"U+0470", <<"U+0471">>>>, <<"U+0472", <<"U+0473">>>>,
     <<"U+0474", <<"U+0475">>>>, <<"U+0476", <<"U+0477">>>>, <<"U+0478", <<"U+0479">>>>,
     <<"U+047A", <<"U+047B">>>>, <<"U+047C", <<"U+047D">>>>, <<"U+047E", <<"U+047F">>>>,
     <<"U+0480", <<"U+0481">>>>, <<"U+048A", <<"U+048B">>>>, <<"U+048C", <<"U+048D">>>>,
     <<"U+048E", <<"U+048F">>>>, <<"U+0490", <<"U+0491">>>>, <<"U+0492", <<"U+0493">>>>,
     <<"U+0494", <<"U+0495">>>>, <<"U+0496", <<"U+0497">>>>, <<"U+0498", <<"U+0499">>>>,
     <<"U+049A", <<"U+049B">>>>, <<"U+049C", <<"U+049D">>>>, <<"U+049E", <<"U+049F">>>>,
     <<"U+04A0", <<"U+04A1">>>>, <<"U+04A2", <<"U+04A3">>>>, <<"U+04A4", <<"U+04A5">>>>,
     <<"U+04A6", <<"U+04A7">>>>, <<"U+04A8", <<"U+04A9">>>>, <<"U+04AA", <<"U+04AB">>>>,
     <<"U+04AC", <<"U+04AD">>>>, <<"U+04AE", <<"U+04AF">>>>, <<"U+04B0", <<"U+04B1">>>>,
     <<"U+04B2", <<"U+04B3">>>>, <<"U+04B4", <<"U+04B5">>>>, <<"U+04B6", <<"U+04B7">>>>,
     <<"U+04B8", <<"U+04B9">>>>, <<"U+04BA", <<"U+04BB">>>>, <<"U+04BC", <<"U+04BD">>>>,
     <<"U+04BE", <<"U+04BF">>>>, <<"U+04C0", <<"U+04CF">>>>, <<"U+04C1", <<"U+04C2">>>>,
     <<"U+04C3", <<"U+04C4">>>>, <<"U+04C5", <<"U+04C6">>>>, <<"U+04C7", <<"U+04C8">>>>,
     <<"U+04C9", <<"U+04CA">>>>, <<"U+04CB", <<"U+04CC">>>>, <<"U+04CD", <<"U+04CE">>>>,
     <<"U+04D0", <<"U+04D1">>>>, <<"U+04D2", <<"U+04D3">>>>, <<"U+04D4", <<"U+04D5">>>>,
     <<"U+04D6", <<"U+04D7">>>>, <<"U+04D8", <<"U+04D9">>>>, <<"U+04DA", <<"U+04DB">>>>,
     <<"U+04DC", <<"U+04DD">>>>, <<"U+04DE", <<"U+04DF">>>>, <<"U+04E0", <<"U+04E1">>>>,
     <<"U+04E2", <<"U+04E3">>>>, <<"U+04E4", <<"U+04E5">>>>, <<"U+04E6", <<"U+04E7">>>>,
     <<"U+04E8", <<"U+04E9">>>>, <<"U+04EA", <<"U+04EB">>>>, <<"U+04EC", <<"U+04ED">>>>,
     <<"U+04EE", <<"U+04EF">>>>, <<"U+04F0", <<"U+04F1">>>>, <<"U+04F2", <<"U+04F3">>>>,
     <<"U+04F4", <<"U+04F5">>>>, <<"U+04F6", <<"U+04F7">>>>, <<"U+04F8", <<"U+04F9">>>>,
     <<"U+04FA", <<"U+04FB">>>>, <<"U+04FC", <<"U+04FD">>>>, <<"U+04FE", <<"U+04FF">>>>,
     <<"U+0500", <<"U+0501">>>>, <<"U+0502", <<"U+0503">>>>, <<"U+0504", <<"U+0505">>>>,
     <<"U+0506", <<"U+0507">>>>, <<"U+0508", <<"U+0509">>>>, <<"U+050A", <<"U+050B">>>>,
     <<"U+050C", <<"U+050D">>>>, <<"U+050E", <<"U+050F">>>>, <<"U+0510", <<"U+0511">>>>,
     <<"U+0512", <<"U+0513">>>>, <<"U+0514", <<"U+0515">>>>, <<"U+0516", <<"U+0517">>>>,
     <<"U+0518", <<"U+0519">>>>, <<"U+051A", <<"U+051B">>>>, <<"U+051C", <<"U+051D">>>>,
     <<"U+051E", <<"U+051F">>>>, <<"U+0520", <<"U+0521">>>>, <<"U+0522", <<"U+0523">>>>,
     <<"U+0524", <<"U+0525">>>>, <<"U+0526", <<"U+0527">>>>, <<"U+0528", <<"U+0529">>>>,
     <<"U+052A", <<"U+052B">>>>, <<"U+052C", <<"U+052D">>>>, <<"U+052E", <<"U+052F">>>>,
     <<"U+0531", <<"U+0561">>>>, <<"U+0532", <<"U+0562">>>>, <<"U+0533", <<"U+0563">>>>,
     <<"U+0534", <<"U+0564">>>>, <<"U+0535", <<"U+0565">>>>, <<"U+0536", <<"U+0566">>>>,
     <<"U+0537", <<"U+0567">>>>, <<"U+0538", <<"U+0568">>>>, <<"U+0539", <<"U+0569">>>>,
     <<"U+053A", <<"U+056A">>>>, <<"U+053B", <<"U+056B">>>>, <<"U+053C", <<"U+056C">>>>,
     <<"U+053D", <<"U+056D">>>>, <<"U+053E", <<"U+056E">>>>, <<"U+053F", <<"U+056F">>>>,
     <<"U+0540", <<"U+0570">>>>, <<"U+0541", <<"U+0571">>>>, <<"U+0542", <<"U+0572">>>>,
     <<"U+0543", <<"U+0573">>>>, <<"U+0544", <<"U+0574">>>>, <<"U+0545", <<"U+0575">>>>,
     <<"U+0546", <<"U+0576">>>>, <<"U+0547", <<"U+0577">>>>, <<"U+0548", <<"U+0578">>>>,
     <<"U+0549", <<"U+0579">>>>, <<"U+054A", <<"U+057A">>>>, <<"U+054B", <<"U+057B">>>>,
     <<"U+054C", <<"U+057C">>>>, <<"U+054D", <<"U+057D">>>>, <<"U+054E", <<"U+057E">>>>,
     <<"U+054F", <<"U+057F">>>>, <<"U+0550", <<"U+0580">>>>, <<"U+0551", <<"U+0581">>>>,
     <<"U+0552", <<"U+0582">>>>, <<"U+0553", <<"U+0583">>>>, <<"U+0554", <<"U+0584">>>>,
     <<"U+0555", <<"U+0585">>>>, <<"U+0556", <<"U+0586">>>>, <<"U+10A0", <<"U+2D00">>>>,
     <<"U+10A1", <<"U+2D01">>>>, <<"U+10A2", <<"U+2D02">>>>, <<"U+10A3", <<"U+2D03">>>>,
     <<"U+10A4", <<"U+2D04">>>>, <<"U+10A5", <<"U+2D05">>>>, <<"U+10A6", <<"U+2D06">>>>,
     <<"U+10A7", <<"U+2D07">>>>, <<"U+10A8", <<"U+2D08">>>>, <<"U+10A9", <<"U+2D09">>>>,
     <<"U+10AA", <<"U+2D0A">>>>, <<"U+10AB", <<"U+2D0B">>>>, <<"U+10AC", <<"U+2D0C">>>>,
     <<"U+10AD", <<"U+2D0D">>>>, <<"U+10AE", <<"U+2D0E">>>>, <<"U+10AF", <<"U+2D0F">>>>,
     <<"U+10B0", <<"U+2D10">>>>, <<"U+10B1", <<"U+2D11">>>>, <<"U+10B2", <<"U+2D12">>>>,
     <<"U+10B3", <<"U+2D13">>>>, <<"U+10B4", <<"U+2D14">>>>, <<"U+10B5", <<"U+2D15">>>>,
     <<"U+10B6", <<"U+2D16">>>>, <<"U+10B7", <<"U+2D17">>>>, <<"U+10B8", <<"U+2D18">>>>,
     <<"U+10B9", <<"U+2D19">>>>, <<"U+10BA", <<"U+2D1A">>>>, <<"U+10BB", <<"U+2D1B">>>>,
     <<"U+10BC", <<"U+2D1C">>>>, <<"U+10BD", <<"U+2D1D">>>>, <<"U+10BE", <<"U+2D1E">>>>,
     <<"U+10BF", <<"U+2D1F">>>>, <<"U+10C0", <<"U+2D20">>>>, <<"U+10C1", <<"U+2D21">>>>,
     <<"U+10C2", <<"U+2D22">>>>, <<"U+10C3", <<"U+2D23">>>>, <<"U+10C4", <<"U+2D24">>>>,
     <<"U+10C5", <<"U+2D25">>>>, <<"U+10C7", <<"U+2D27">>>>, <<"U+10CD", <<"U+2D2D">>>>,
     <<"U+13A0", <<"U+AB70">>>>, <<"U+13A1", <<"U+AB71">>>>, <<"U+13A2", <<"U+AB72">>>>,
     <<"U+13A3", <<"U+AB73">>>>, <<"U+13A4", <<"U+AB74">>>>, <<"U+13A5", <<"U+AB75">>>>,
     <<"U+13A6", <<"U+AB76">>>>, <<"U+13A7", <<"U+AB77">>>>, <<"U+13A8", <<"U+AB78">>>>,
     <<"U+13A9", <<"U+AB79">>>>, <<"U+13AA", <<"U+AB7A">>>>, <<"U+13AB", <<"U+AB7B">>>>,
     <<"U+13AC", <<"U+AB7C">>>>, <<"U+13AD", <<"U+AB7D">>>>, <<"U+13AE", <<"U+AB7E">>>>,
     <<"U+13AF", <<"U+AB7F">>>>, <<"U+13B0", <<"U+AB80">>>>, <<"U+13B1", <<"U+AB81">>>>,
     <<"U+13B2", <<"U+AB82">>>>, <<"U+13B3", <<"U+AB83">>>>, <<"U+13B4", <<"U+AB84">>>>,
     <<"U+13B5", <<"U+AB85">>>>, <<"U+13B6", <<"U+AB86">>>>, <<"U+13B7", <<"U+AB87">>>>,
     <<"U+13B8", <<"U+AB88">>>>, <<"U+13B9", <<"U+AB89">>>>, <<"U+13BA", <<"U+AB8A">>>>,
     <<"U+13BB", <<"U+AB8B">>>>, <<"U+13BC", <<"U+AB8C">>>>, <<"U+13BD", <<"U+AB8D">>>>,
     <<"U+13BE", <<"U+AB8E">>>>, <<"U+13BF", <<"U+AB8F">>>>, <<"U+13C0", <<"U+AB90">>>>,
     <<"U+13C1", <<"U+AB91">>>>, <<"U+13C2", <<"U+AB92">>>>, <<"U+13C3", <<"U+AB93">>>>,
     <<"U+13C4", <<"U+AB94">>>>, <<"U+13C5", <<"U+AB95">>>>, <<"U+13C6", <<"U+AB96">>>>,
     <<"U+13C7", <<"U+AB97">>>>, <<"U+13C8", <<"U+AB98">>>>, <<"U+13C9", <<"U+AB99">>>>,
     <<"U+13CA", <<"U+AB9A">>>>, <<"U+13CB", <<"U+AB9B">>>>, <<"U+13CC", <<"U+AB9C">>>>,
     <<"U+13CD", <<"U+AB9D">>>>, <<"U+13CE", <<"U+AB9E">>>>, <<"U+13CF", <<"U+AB9F">>>>,
     <<"U+13D0", <<"U+ABA0">>>>, <<"U+13D1", <<"U+ABA1">>>>, <<"U+13D2", <<"U+ABA2">>>>,
     <<"U+13D3", <<"U+ABA3">>>>, <<"U+13D4", <<"U+ABA4">>>>, <<"U+13D5", <<"U+ABA5">>>>,
     <<"U+13D6", <<"U+ABA6">>>>, <<"U+13D7", <<"U+ABA7">>>>, <<"U+13D8", <<"U+ABA8">>>>,
     <<"U+13D9", <<"U+ABA9">>>>, <<"U+13DA", <<"U+ABAA">>>>, <<"U+13DB", <<"U+ABAB">>>>,
     <<"U+13DC", <<"U+ABAC">>>>, <<"U+13DD", <<"U+ABAD">>>>, <<"U+13DE", <<"U+ABAE">>>>,
     <<"U+13DF", <<"U+ABAF">>>>, <<"U+13E0", <<"U+ABB0">>>>, <<"U+13E1", <<"U+ABB1">>>>,
     <<"U+13E2", <<"U+ABB2">>>>, <<"U+13E3", <<"U+ABB3">>>>, <<"U+13E4", <<"U+ABB4">>>>,
     <<"U+13E5", <<"U+ABB5">>>>, <<"U+13E6", <<"U+ABB6">>>>, <<"U+13E7", <<"U+ABB7">>>>,
     <<"U+13E8", <<"U+ABB8">>>>, <<"U+13E9", <<"U+ABB9">>>>, <<"U+13EA", <<"U+ABBA">>>>,
     <<"U+13EB", <<"U+ABBB">>>>, <<"U+13EC", <<"U+ABBC">>>>, <<"U+13ED", <<"U+ABBD">>>>,
     <<"U+13EE", <<"U+ABBE">>>>, <<"U+13EF", <<"U+ABBF">>>>, <<"U+13F0", <<"U+13F8">>>>,
     <<"U+13F1", <<"U+13F9">>>>, <<"U+13F2", <<"U+13FA">>>>, <<"U+13F3", <<"U+13FB">>>>,
     <<"U+13F4", <<"U+13FC">>>>, <<"U+13F5", <<"U+13FD">>>>, <<"U+1C89", <<"U+1C8A">>>>,
     <<"U+1C90", <<"U+10D0">>>>, <<"U+1C91", <<"U+10D1">>>>, <<"U+1C92", <<"U+10D2">>>>,
     <<"U+1C93", <<"U+10D3">>>>, <<"U+1C94", <<"U+10D4">>>>, <<"U+1C95", <<"U+10D5">>>>,
     <<"U+1C96", <<"U+10D6">>>>, <<"U+1C97", <<"U+10D7">>>>, <<"U+1C98", <<"U+10D8">>>>,
     <<"U+1C99", <<"U+10D9">>>>, <<"U+1C9A", <<"U+10DA">>>>, <<"U+1C9B", <<"U+10DB">>>>,
     <<"U+1C9C", <<"U+10DC">>>>, <<"U+1C9D", <<"U+10DD">>>>, <<"U+1C9E", <<"U+10DE">>>>,
     <<"U+1C9F", <<"U+10DF">>>>, <<"U+1CA0", <<"U+10E0">>>>, <<"U+1CA1", <<"U+10E1">>>>,
     <<"U+1CA2", <<"U+10E2">>>>, <<"U+1CA3", <<"U+10E3">>>>, <<"U+1CA4", <<"U+10E4">>>>,
     <<"U+1CA5", <<"U+10E5">>>>, <<"U+1CA6", <<"U+10E6">>>>, <<"U+1CA7", <<"U+10E7">>>>,
     <<"U+1CA8", <<"U+10E8">>>>, <<"U+1CA9", <<"U+10E9">>>>, <<"U+1CAA", <<"U+10EA">>>>,
     <<"U+1CAB", <<"U+10EB">>>>, <<"U+1CAC", <<"U+10EC">>>>, <<"U+1CAD", <<"U+10ED">>>>,
     <<"U+1CAE", <<"U+10EE">>>>, <<"U+1CAF", <<"U+10EF">>>>, <<"U+1CB0", <<"U+10F0">>>>,
     <<"U+1CB1", <<"U+10F1">>>>, <<"U+1CB2", <<"U+10F2">>>>, <<"U+1CB3", <<"U+10F3">>>>,
     <<"U+1CB4", <<"U+10F4">>>>, <<"U+1CB5", <<"U+10F5">>>>, <<"U+1CB6", <<"U+10F6">>>>,
     <<"U+1CB7", <<"U+10F7">>>>, <<"U+1CB8", <<"U+10F8">>>>, <<"U+1CB9", <<"U+10F9">>>>,
     <<"U+1CBA", <<"U+10FA">>>>, <<"U+1CBD", <<"U+10FD">>>>, <<"U+1CBE", <<"U+10FE">>>>,
     <<"U+1CBF", <<"U+10FF">>>>, <<"U+1E00", <<"U+1E01">>>>, <<"U+1E02", <<"U+1E03">>>>,
     <<"U+1E04", <<"U+1E05">>>>, <<"U+1E06", <<"U+1E07">>>>, <<"U+1E08", <<"U+1E09">>>>,
     <<"U+1E0A", <<"U+1E0B">>>>, <<"U+1E0C", <<"U+1E0D">>>>, <<"U+1E0E", <<"U+1E0F">>>>,
     <<"U+1E10", <<"U+1E11">>>>, <<"U+1E12", <<"U+1E13">>>>, <<"U+1E14", <<"U+1E15">>>>,
     <<"U+1E16", <<"U+1E17">>>>, <<"U+1E18", <<"U+1E19">>>>, <<"U+1E1A", <<"U+1E1B">>>>,
     <<"U+1E1C", <<"U+1E1D">>>>, <<"U+1E1E", <<"U+1E1F">>>>, <<"U+1E20", <<"U+1E21">>>>,
     <<"U+1E22", <<"U+1E23">>>>, <<"U+1E24", <<"U+1E25">>>>, <<"U+1E26", <<"U+1E27">>>>,
     <<"U+1E28", <<"U+1E29">>>>, <<"U+1E2A", <<"U+1E2B">>>>, <<"U+1E2C", <<"U+1E2D">>>>,
     <<"U+1E2E", <<"U+1E2F">>>>, <<"U+1E30", <<"U+1E31">>>>, <<"U+1E32", <<"U+1E33">>>>,
     <<"U+1E34", <<"U+1E35">>>>, <<"U+1E36", <<"U+1E37">>>>, <<"U+1E38", <<"U+1E39">>>>,
     <<"U+1E3A", <<"U+1E3B">>>>, <<"U+1E3C", <<"U+1E3D">>>>, <<"U+1E3E", <<"U+1E3F">>>>,
     <<"U+1E40", <<"U+1E41">>>>, <<"U+1E42", <<"U+1E43">>>>, <<"U+1E44", <<"U+1E45">>>>,
     <<"U+1E46", <<"U+1E47">>>>, <<"U+1E48", <<"U+1E49">>>>, <<"U+1E4A", <<"U+1E4B">>>>,
     <<"U+1E4C", <<"U+1E4D">>>>, <<"U+1E4E", <<"U+1E4F">>>>, <<"U+1E50", <<"U+1E51">>>>,
     <<"U+1E52", <<"U+1E53">>>>, <<"U+1E54", <<"U+1E55">>>>, <<"U+1E56", <<"U+1E57">>>>,
     <<"U+1E58", <<"U+1E59">>>>, <<"U+1E5A", <<"U+1E5B">>>>, <<"U+1E5C", <<"U+1E5D">>>>,
     <<"U+1E5E", <<"U+1E5F">>>>, <<"U+1E60", <<"U+1E61">>>>, <<"U+1E62", <<"U+1E63">>>>,
     <<"U+1E64", <<"U+1E65">>>>, <<"U+1E66", <<"U+1E67">>>>, <<"U+1E68", <<"U+1E69">>>>,
     <<"U+1E6A", <<"U+1E6B">>>>, <<"U+1E6C", <<"U+1E6D">>>>, <<"U+1E6E", <<"U+1E6F">>>>,
     <<"U+1E70", <<"U+1E71">>>>, <<"U+1E72", <<"U+1E73">>>>, <<"U+1E74", <<"U+1E75">>>>,
     <<"U+1E76", <<"U+1E77">>>>, <<"U+1E78", <<"U+1E79">>>>, <<"U+1E7A", <<"U+1E7B">>>>,
     <<"U+1E7C", <<"U+1E7D">>>>, <<"U+1E7E", <<"U+1E7F">>>>, <<"U+1E80", <<"U+1E81">>>>,
     <<"U+1E82", <<"U+1E83">>>>, <<"U+1E84", <<"U+1E85">>>>, <<"U+1E86", <<"U+1E87">>>>,
     <<"U+1E88", <<"U+1E89">>>>, <<"U+1E8A", <<"U+1E8B">>>>, <<"U+1E8C", <<"U+1E8D">>>>,
     <<"U+1E8E", <<"U+1E8F">>>>, <<"U+1E90", <<"U+1E91">>>>, <<"U+1E92", <<"U+1E93">>>>,
     <<"U+1E94", <<"U+1E95">>>>, <<"U+1E9E", <<"U+00DF">>>>, <<"U+1EA0", <<"U+1EA1">>>>,
     <<"U+1EA2", <<"U+1EA3">>>>, <<"U+1EA4", <<"U+1EA5">>>>, <<"U+1EA6", <<"U+1EA7">>>>,
     <<"U+1EA8", <<"U+1EA9">>>>, <<"U+1EAA", <<"U+1EAB">>>>, <<"U+1EAC", <<"U+1EAD">>>>,
     <<"U+1EAE", <<"U+1EAF">>>>, <<"U+1EB0", <<"U+1EB1">>>>, <<"U+1EB2", <<"U+1EB3">>>>,
     <<"U+1EB4", <<"U+1EB5">>>>, <<"U+1EB6", <<"U+1EB7">>>>, <<"U+1EB8", <<"U+1EB9">>>>,
     <<"U+1EBA", <<"U+1EBB">>>>, <<"U+1EBC", <<"U+1EBD">>>>, <<"U+1EBE", <<"U+1EBF">>>>,
     <<"U+1EC0", <<"U+1EC1">>>>, <<"U+1EC2", <<"U+1EC3">>>>, <<"U+1EC4", <<"U+1EC5">>>>,
     <<"U+1EC6", <<"U+1EC7">>>>, <<"U+1EC8", <<"U+1EC9">>>>, <<"U+1ECA", <<"U+1ECB">>>>,
     <<"U+1ECC", <<"U+1ECD">>>>, <<"U+1ECE", <<"U+1ECF">>>>, <<"U+1ED0", <<"U+1ED1">>>>,
     <<"U+1ED2", <<"U+1ED3">>>>, <<"U+1ED4", <<"U+1ED5">>>>, <<"U+1ED6", <<"U+1ED7">>>>,
     <<"U+1ED8", <<"U+1ED9">>>>, <<"U+1EDA", <<"U+1EDB">>>>, <<"U+1EDC", <<"U+1EDD">>>>,
     <<"U+1EDE", <<"U+1EDF">>>>, <<"U+1EE0", <<"U+1EE1">>>>, <<"U+1EE2", <<"U+1EE3">>>>,
     <<"U+1EE4", <<"U+1EE5">>>>, <<"U+1EE6", <<"U+1EE7">>>>, <<"U+1EE8", <<"U+1EE9">>>>,
     <<"U+1EEA", <<"U+1EEB">>>>, <<"U+1EEC", <<"U+1EED">>>>, <<"U+1EEE", <<"U+1EEF">>>>,
     <<"U+1EF0", <<"U+1EF1">>>>, <<"U+1EF2", <<"U+1EF3">>>>, <<"U+1EF4", <<"U+1EF5">>>>,
     <<"U+1EF6", <<"U+1EF7">>>>, <<"U+1EF8", <<"U+1EF9">>>>, <<"U+1EFA", <<"U+1EFB">>>>,
     <<"U+1EFC", <<"U+1EFD">>>>, <<"U+1EFE", <<"U+1EFF">>>>, <<"U+1F08", <<"U+1F00">>>>,
     <<"U+1F09", <<"U+1F01">>>>, <<"U+1F0A", <<"U+1F02">>>>, <<"U+1F0B", <<"U+1F03">>>>,
     <<"U+1F0C", <<"U+1F04">>>>, <<"U+1F0D", <<"U+1F05">>>>, <<"U+1F0E", <<"U+1F06">>>>,
     <<"U+1F0F", <<"U+1F07">>>>, <<"U+1F18", <<"U+1F10">>>>, <<"U+1F19", <<"U+1F11">>>>,
     <<"U+1F1A", <<"U+1F12">>>>, <<"U+1F1B", <<"U+1F13">>>>, <<"U+1F1C", <<"U+1F14">>>>,
     <<"U+1F1D", <<"U+1F15">>>>, <<"U+1F28", <<"U+1F20">>>>, <<"U+1F29", <<"U+1F21">>>>,
     <<"U+1F2A", <<"U+1F22">>>>, <<"U+1F2B", <<"U+1F23">>>>, <<"U+1F2C", <<"U+1F24">>>>,
     <<"U+1F2D", <<"U+1F25">>>>, <<"U+1F2E", <<"U+1F26">>>>, <<"U+1F2F", <<"U+1F27">>>>,
     <<"U+1F38", <<"U+1F30">>>>, <<"U+1F39", <<"U+1F31">>>>, <<"U+1F3A", <<"U+1F32">>>>,
     <<"U+1F3B", <<"U+1F33">>>>, <<"U+1F3C", <<"U+1F34">>>>, <<"U+1F3D", <<"U+1F35">>>>,
     <<"U+1F3E", <<"U+1F36">>>>, <<"U+1F3F", <<"U+1F37">>>>, <<"U+1F48", <<"U+1F40">>>>,
     <<"U+1F49", <<"U+1F41">>>>, <<"U+1F4A", <<"U+1F42">>>>, <<"U+1F4B", <<"U+1F43">>>>,
     <<"U+1F4C", <<"U+1F44">>>>, <<"U+1F4D", <<"U+1F45">>>>, <<"U+1F59", <<"U+1F51">>>>,
     <<"U+1F5B", <<"U+1F53">>>>, <<"U+1F5D", <<"U+1F55">>>>, <<"U+1F5F", <<"U+1F57">>>>,
     <<"U+1F68", <<"U+1F60">>>>, <<"U+1F69", <<"U+1F61">>>>, <<"U+1F6A", <<"U+1F62">>>>,
     <<"U+1F6B", <<"U+1F63">>>>, <<"U+1F6C", <<"U+1F64">>>>, <<"U+1F6D", <<"U+1F65">>>>,
     <<"U+1F6E", <<"U+1F66">>>>, <<"U+1F6F", <<"U+1F67">>>>, <<"U+1F88", <<"U+1F80">>>>,
     <<"U+1F89", <<"U+1F81">>>>, <<"U+1F8A", <<"U+1F82">>>>, <<"U+1F8B", <<"U+1F83">>>>,
     <<"U+1F8C", <<"U+1F84">>>>, <<"U+1F8D", <<"U+1F85">>>>, <<"U+1F8E", <<"U+1F86">>>>,
     <<"U+1F8F", <<"U+1F87">>>>, <<"U+1F98", <<"U+1F90">>>>, <<"U+1F99", <<"U+1F91">>>>,
     <<"U+1F9A", <<"U+1F92">>>>, <<"U+1F9B", <<"U+1F93">>>>, <<"U+1F9C", <<"U+1F94">>>>,
     <<"U+1F9D", <<"U+1F95">>>>, <<"U+1F9E", <<"U+1F96">>>>, <<"U+1F9F", <<"U+1F97">>>>,
     <<"U+1FA8", <<"U+1FA0">>>>, <<"U+1FA9", <<"U+1FA1">>>>, <<"U+1FAA", <<"U+1FA2">>>>,
     <<"U+1FAB", <<"U+1FA3">>>>, <<"U+1FAC", <<"U+1FA4">>>>, <<"U+1FAD", <<"U+1FA5">>>>,
     <<"U+1FAE", <<"U+1FA6">>>>, <<"U+1FAF", <<"U+1FA7">>>>, <<"U+1FB8", <<"U+1FB0">>>>,
     <<"U+1FB9", <<"U+1FB1">>>>, <<"U+1FBA", <<"U+1F70">>>>, <<"U+1FBB", <<"U+1F71">>>>,
     <<"U+1FBC", <<"U+1FB3">>>>, <<"U+1FC8", <<"U+1F72">>>>, <<"U+1FC9", <<"U+1F73">>>>,
     <<"U+1FCA", <<"U+1F74">>>>, <<"U+1FCB", <<"U+1F75">>>>, <<"U+1FCC", <<"U+1FC3">>>>,
     <<"U+1FD8", <<"U+1FD0">>>>, <<"U+1FD9", <<"U+1FD1">>>>, <<"U+1FDA", <<"U+1F76">>>>,
     <<"U+1FDB", <<"U+1F77">>>>, <<"U+1FE8", <<"U+1FE0">>>>, <<"U+1FE9", <<"U+1FE1">>>>,
     <<"U+1FEA", <<"U+1F7A">>>>, <<"U+1FEB", <<"U+1F7B">>>>, <<"U+1FEC", <<"U+1FE5">>>>,
     <<"U+1FF8", <<"U+1F78">>>>, <<"U+1FF9", <<"U+1F79">>>>, <<"U+1FFA", <<"U+1F7C">>>>,
     <<"U+1FFB", <<"U+1F7D">>>>, <<"U+1FFC", <<"U+1FF3">>>>, <<"U+2126", <<"U+03C9">>>>,
     <<"U+212A", <<"k">>>>, <<"U+212B", <<"U+00E5">>>>, <<"U+2132", <<"U+214E">>>>,
     <<"U+2160", <<"U+2170">>>>, <<"U+2161", <<"U+2171">>>>, <<"U+2162", <<"U+2172">>>>,
     <<"U+2163", <<"U+2173">>>>, <<"U+2164", <<"U+2174">>>>, <<"U+2165", <<"U+2175">>>>,
     <<"U+2166", <<"U+2176">>>>, <<"U+2167", <<"U+2177">>>>, <<"U+2168", <<"U+2178">>>>,
     <<"U+2169", <<"U+2179">>>>, <<"U+216A", <<"U+217A">>>>, <<"U+216B", <<"U+217B">>>>,
     <<"U+216C", <<"U+217C">>>>, <<"U+216D", <<"U+217D">>>>, <<"U+216E", <<"U+217E">>>>,
     <<"U+216F", <<"U+217F">>>>, <<"U+2183", <<"U+2184">>>>, <<"U+24B6", <<"U+24D0">>>>,
     <<"U+24B7", <<"U+24D1">>>>, <<"U+24B8", <<"U+24D2">>>>, <<"U+24B9", <<"U+24D3">>>>,
     <<"U+24BA", <<"U+24D4">>>>, <<"U+24BB", <<"U+24D5">>>>, <<"U+24BC", <<"U+24D6">>>>,
     <<"U+24BD", <<"U+24D7">>>>, <<"U+24BE", <<"U+24D8">>>>, <<"U+24BF", <<"U+24D9">>>>,
     <<"U+24C0", <<"U+24DA">>>>, <<"U+24C1", <<"U+24DB">>>>, <<"U+24C2", <<"U+24DC">>>>,
     <<"U+24C3", <<"U+24DD">>>>, <<"U+24C4", <<"U+24DE">>>>, <<"U+24C5", <<"U+24DF">>>>,
     <<"U+24C6", <<"U+24E0">>>>, <<"U+24C7", <<"U+24E1">>>>, <<"U+24C8", <<"U+24E2">>>>,
     <<"U+24C9", <<"U+24E3">>>>, <<"U+24CA", <<"U+24E4">>>>, <<"U+24CB", <<"U+24E5">>>>,
     <<"U+24CC", <<"U+24E6">>>>, <<"U+24CD", <<"U+24E7">>>>, <<"U+24CE", <<"U+24E8">>>>,
     <<"U+24CF", <<"U+24E9">>>>, <<"U+2C00", <<"U+2C30">>>>, <<"U+2C01", <<"U+2C31">>>>,
     <<"U+2C02", <<"U+2C32">>>>, <<"U+2C03", <<"U+2C33">>>>, <<"U+2C04", <<"U+2C34">>>>,
     <<"U+2C05", <<"U+2C35">>>>, <<"U+2C06", <<"U+2C36">>>>, <<"U+2C07", <<"U+2C37">>>>,
     <<"U+2C08", <<"U+2C38">>>>, <<"U+2C09", <<"U+2C39">>>>, <<"U+2C0A", <<"U+2C3A">>>>,
     <<"U+2C0B", <<"U+2C3B">>>>, <<"U+2C0C", <<"U+2C3C">>>>, <<"U+2C0D", <<"U+2C3D">>>>,
     <<"U+2C0E", <<"U+2C3E">>>>, <<"U+2C0F", <<"U+2C3F">>>>, <<"U+2C10", <<"U+2C40">>>>,
     <<"U+2C11", <<"U+2C41">>>>, <<"U+2C12", <<"U+2C42">>>>, <<"U+2C13", <<"U+2C43">>>>,
     <<"U+2C14", <<"U+2C44">>>>, <<"U+2C15", <<"U+2C45">>>>, <<"U+2C16", <<"U+2C46">>>>,
     <<"U+2C17", <<"U+2C47">>>>, <<"U+2C18", <<"U+2C48">>>>, <<"U+2C19", <<"U+2C49">>>>,
     <<"U+2C1A", <<"U+2C4A">>>>, <<"U+2C1B", <<"U+2C4B">>>>, <<"U+2C1C", <<"U+2C4C">>>>,
     <<"U+2C1D", <<"U+2C4D">>>>, <<"U+2C1E", <<"U+2C4E">>>>, <<"U+2C1F", <<"U+2C4F">>>>,
     <<"U+2C20", <<"U+2C50">>>>, <<"U+2C21", <<"U+2C51">>>>, <<"U+2C22", <<"U+2C52">>>>,
     <<"U+2C23", <<"U+2C53">>>>, <<"U+2C24", <<"U+2C54">>>>, <<"U+2C25", <<"U+2C55">>>>,
     <<"U+2C26", <<"U+2C56">>>>, <<"U+2C27", <<"U+2C57">>>>, <<"U+2C28", <<"U+2C58">>>>,
     <<"U+2C29", <<"U+2C59">>>>, <<"U+2C2A", <<"U+2C5A">>>>, <<"U+2C2B", <<"U+2C5B">>>>,
     <<"U+2C2C", <<"U+2C5C">>>>, <<"U+2C2D", <<"U+2C5D">>>>, <<"U+2C2E", <<"U+2C5E">>>>,
     <<"U+2C2F", <<"U+2C5F">>>>, <<"U+2C60", <<"U+2C61">>>>, <<"U+2C62", <<"U+026B">>>>,
     <<"U+2C63", <<"U+1D7D">>>>, <<"U+2C64", <<"U+027D">>>>, <<"U+2C67", <<"U+2C68">>>>,
     <<"U+2C69", <<"U+2C6A">>>>, <<"U+2C6B", <<"U+2C6C">>>>, <<"U+2C6D", <<"U+0251">>>>,
     <<"U+2C6E", <<"U+0271">>>>, <<"U+2C6F", <<"U+0250">>>>, <<"U+2C70", <<"U+0252">>>>,
     <<"U+2C72", <<"U+2C73">>>>, <<"U+2C75", <<"U+2C76">>>>, <<"U+2C7E", <<"U+023F">>>>,
     <<"U+2C7F", <<"U+0240">>>>, <<"U+2C80", <<"U+2C81">>>>, <<"U+2C82", <<"U+2C83">>>>,
     <<"U+2C84", <<"U+2C85">>>>, <<"U+2C86", <<"U+2C87">>>>, <<"U+2C88", <<"U+2C89">>>>,
     <<"U+2C8A", <<"U+2C8B">>>>, <<"U+2C8C", <<"U+2C8D">>>>, <<"U+2C8E", <<"U+2C8F">>>>,
     <<"U+2C90", <<"U+2C91">>>>, <<"U+2C92", <<"U+2C93">>>>, <<"U+2C94", <<"U+2C95">>>>,
     <<"U+2C96", <<"U+2C97">>>>, <<"U+2C98", <<"U+2C99">>>>, <<"U+2C9A", <<"U+2C9B">>>>,
     <<"U+2C9C", <<"U+2C9D">>>>, <<"U+2C9E", <<"U+2C9F">>>>, <<"U+2CA0", <<"U+2CA1">>>>,
     <<"U+2CA2", <<"U+2CA3">>>>, <<"U+2CA4", <<"U+2CA5">>>>, <<"U+2CA6", <<"U+2CA7">>>>,
     <<"U+2CA8", <<"U+2CA9">>>>, <<"U+2CAA", <<"U+2CAB">>>>, <<"U+2CAC", <<"U+2CAD">>>>,
     <<"U+2CAE", <<"U+2CAF">>>>, <<"U+2CB0", <<"U+2CB1">>>>, <<"U+2CB2", <<"U+2CB3">>>>,
     <<"U+2CB4", <<"U+2CB5">>>>, <<"U+2CB6", <<"U+2CB7">>>>, <<"U+2CB8", <<"U+2CB9">>>>,
     <<"U+2CBA", <<"U+2CBB">>>>, <<"U+2CBC", <<"U+2CBD">>>>, <<"U+2CBE", <<"U+2CBF">>>>,
     <<"U+2CC0", <<"U+2CC1">>>>, <<"U+2CC2", <<"U+2CC3">>>>, <<"U+2CC4", <<"U+2CC5">>>>,
     <<"U+2CC6", <<"U+2CC7">>>>, <<"U+2CC8", <<"U+2CC9">>>>, <<"U+2CCA", <<"U+2CCB">>>>,
     <<"U+2CCC", <<"U+2CCD">>>>, <<"U+2CCE", <<"U+2CCF">>>>, <<"U+2CD0", <<"U+2CD1">>>>,
     <<"U+2CD2", <<"U+2CD3">>>>, <<"U+2CD4", <<"U+2CD5">>>>, <<"U+2CD6", <<"U+2CD7">>>>,
     <<"U+2CD8", <<"U+2CD9">>>>, <<"U+2CDA", <<"U+2CDB">>>>, <<"U+2CDC", <<"U+2CDD">>>>,
     <<"U+2CDE", <<"U+2CDF">>>>, <<"U+2CE0", <<"U+2CE1">>>>, <<"U+2CE2", <<"U+2CE3">>>>,
     <<"U+2CEB", <<"U+2CEC">>>>, <<"U+2CED", <<"U+2CEE">>>>, <<"U+2CF2", <<"U+2CF3">>>>,
     <<"U+A640", <<"U+A641">>>>, <<"U+A642", <<"U+A643">>>>, <<"U+A644", <<"U+A645">>>>,
     <<"U+A646", <<"U+A647">>>>, <<"U+A648", <<"U+A649">>>>, <<"U+A64A", <<"U+A64B">>>>,
     <<"U+A64C", <<"U+A64D">>>>, <<"U+A64E", <<"U+A64F">>>>, <<"U+A650", <<"U+A651">>>>,
     <<"U+A652", <<"U+A653">>>>, <<"U+A654", <<"U+A655">>>>, <<"U+A656", <<"U+A657">>>>,
     <<"U+A658", <<"U+A659">>>>, <<"U+A65A", <<"U+A65B">>>>, <<"U+A65C", <<"U+A65D">>>>,
     <<"U+A65E", <<"U+A65F">>>>, <<"U+A660", <<"U+A661">>>>, <<"U+A662", <<"U+A663">>>>,
     <<"U+A664", <<"U+A665">>>>, <<"U+A666", <<"U+A667">>>>, <<"U+A668", <<"U+A669">>>>,
     <<"U+A66A", <<"U+A66B">>>>, <<"U+A66C", <<"U+A66D">>>>, <<"U+A680", <<"U+A681">>>>,
     <<"U+A682", <<"U+A683">>>>, <<"U+A684", <<"U+A685">>>>, <<"U+A686", <<"U+A687">>>>,
     <<"U+A688", <<"U+A689">>>>, <<"U+A68A", <<"U+A68B">>>>, <<"U+A68C", <<"U+A68D">>>>,
     <<"U+A68E", <<"U+A68F">>>>, <<"U+A690", <<"U+A691">>>>, <<"U+A692", <<"U+A693">>>>,
     <<"U+A694", <<"U+A695">>>>, <<"U+A696", <<"U+A697">>>>, <<"U+A698", <<"U+A699">>>>,
     <<"U+A69A", <<"U+A69B">>>>, <<"U+A722", <<"U+A723">>>>, <<"U+A724", <<"U+A725">>>>,
     <<"U+A726", <<"U+A727">>>>, <<"U+A728", <<"U+A729">>>>, <<"U+A72A", <<"U+A72B">>>>,
     <<"U+A72C", <<"U+A72D">>>>, <<"U+A72E", <<"U+A72F">>>>, <<"U+A732", <<"U+A733">>>>,
     <<"U+A734", <<"U+A735">>>>, <<"U+A736", <<"U+A737">>>>, <<"U+A738", <<"U+A739">>>>,
     <<"U+A73A", <<"U+A73B">>>>, <<"U+A73C", <<"U+A73D">>>>, <<"U+A73E", <<"U+A73F">>>>,
     <<"U+A740", <<"U+A741">>>>, <<"U+A742", <<"U+A743">>>>, <<"U+A744", <<"U+A745">>>>,
     <<"U+A746", <<"U+A747">>>>, <<"U+A748", <<"U+A749">>>>, <<"U+A74A", <<"U+A74B">>>>,
     <<"U+A74C", <<"U+A74D">>>>, <<"U+A74E", <<"U+A74F">>>>, <<"U+A750", <<"U+A751">>>>,
     <<"U+A752", <<"U+A753">>>>, <<"U+A754", <<"U+A755">>>>, <<"U+A756", <<"U+A757">>>>,
     <<"U+A758", <<"U+A759">>>>, <<"U+A75A", <<"U+A75B">>>>, <<"U+A75C", <<"U+A75D">>>>,
     <<"U+A75E", <<"U+A75F">>>>, <<"U+A760", <<"U+A761">>>>, <<"U+A762", <<"U+A763">>>>,
     <<"U+A764", <<"U+A765">>>>, <<"U+A766", <<"U+A767">>>>, <<"U+A768", <<"U+A769">>>>,
     <<"U+A76A", <<"U+A76B">>>>, <<"U+A76C", <<"U+A76D">>>>, <<"U+A76E", <<"U+A76F">>>>,
     <<"U+A779", <<"U+A77A">>>>, <<"U+A77B", <<"U+A77C">>>>, <<"U+A77D", <<"U+1D79">>>>,
     <<"U+A77E", <<"U+A77F">>>>, <<"U+A780", <<"U+A781">>>>, <<"U+A782", <<"U+A783">>>>,
     <<"U+A784", <<"U+A785">>>>, <<"U+A786", <<"U+A787">>>>, <<"U+A78B", <<"U+A78C">>>>,
     <<"U+A78D", <<"U+0265">>>>, <<"U+A790", <<"U+A791">>>>, <<"U+A792", <<"U+A793">>>>,
     <<"U+A796", <<"U+A797">>>>, <<"U+A798", <<"U+A799">>>>, <<"U+A79A", <<"U+A79B">>>>,
     <<"U+A79C", <<"U+A79D">>>>, <<"U+A79E", <<"U+A79F">>>>, <<"U+A7A0", <<"U+A7A1">>>>,
     <<"U+A7A2", <<"U+A7A3">>>>, <<"U+A7A4", <<"U+A7A5">>>>, <<"U+A7A6", <<"U+A7A7">>>>,
     <<"U+A7A8", <<"U+A7A9">>>>, <<"U+A7AA", <<"U+0266">>>>, <<"U+A7AB", <<"U+025C">>>>,
     <<"U+A7AC", <<"U+0261">>>>, <<"U+A7AD", <<"U+026C">>>>, <<"U+A7AE", <<"U+026A">>>>,
     <<"U+A7B0", <<"U+029E">>>>, <<"U+A7B1", <<"U+0287">>>>, <<"U+A7B2", <<"U+029D">>>>,
     <<"U+A7B3", <<"U+AB53">>>>, <<"U+A7B4", <<"U+A7B5">>>>, <<"U+A7B6", <<"U+A7B7">>>>,
     <<"U+A7B8", <<"U+A7B9">>>>, <<"U+A7BA", <<"U+A7BB">>>>, <<"U+A7BC", <<"U+A7BD">>>>,
     <<"U+A7BE", <<"U+A7BF">>>>, <<"U+A7C0", <<"U+A7C1">>>>, <<"U+A7C2", <<"U+A7C3">>>>,
     <<"U+A7C4", <<"U+A794">>>>, <<"U+A7C5", <<"U+0282">>>>, <<"U+A7C6", <<"U+1D8E">>>>,
     <<"U+A7C7", <<"U+A7C8">>>>, <<"U+A7C9", <<"U+A7CA">>>>, <<"U+A7CB", <<"U+0264">>>>,
     <<"U+A7CC", <<"U+A7CD">>>>, <<"U+A7CE", <<"U+A7CF">>>>, <<"U+A7D0", <<"U+A7D1">>>>,
     <<"U+A7D2", <<"U+A7D3">>>>, <<"U+A7D4", <<"U+A7D5">>>>, <<"U+A7D6", <<"U+A7D7">>>>,
     <<"U+A7D8", <<"U+A7D9">>>>, <<"U+A7DA", <<"U+A7DB">>>>, <<"U+A7DC", <<"U+019B">>>>,
     <<"U+A7F5", <<"U+A7F6">>>>, <<"U+FF21", <<"U+FF41">>>>, <<"U+FF22", <<"U+FF42">>>>,
     <<"U+FF23", <<"U+FF43">>>>, <<"U+FF24", <<"U+FF44">>>>, <<"U+FF25", <<"U+FF45">>>>,
     <<"U+FF26", <<"U+FF46">>>>, <<"U+FF27", <<"U+FF47">>>>, <<"U+FF28", <<"U+FF48">>>>,
     <<"U+FF29", <<"U+FF49">>>>, <<"U+FF2A", <<"U+FF4A">>>>, <<"U+FF2B", <<"U+FF4B">>>>,
     <<"U+FF2C", <<"U+FF4C">>>>, <<"U+FF2D", <<"U+FF4D">>>>, <<"U+FF2E", <<"U+FF4E">>>>,
     <<"U+FF2F", <<"U+FF4F">>>>, <<"U+FF30", <<"U+FF50">>>>, <<"U+FF31", <<"U+FF51">>>>,
     <<"U+FF32", <<"U+FF52">>>>, <<"U+FF33", <<"U+FF53">>>>, <<"U+FF34", <<"U+FF54">>>>,
     <<"U+FF35", <<"U+FF55">>>>, <<"U+FF36", <<"U+FF56">>>>, <<"U+FF37", <<"U+FF57">>>>,
     <<"U+FF38", <<"U+FF58">>>>, <<"U+FF39", <<"U+FF59">>>>, <<"U+FF3A", <<"U+FF5A">>>>}

\* toLowerCase on the code points above U+FFFF that it changes: the two
\* surrogate units of each with the two it becomes.
AstralLowerPairs ==
    {<<<<"U+D801", "U+DC00">>, <<"U+D801", "U+DC28">>>>,
     <<<<"U+D801", "U+DC01">>, <<"U+D801", "U+DC29">>>>,
     <<<<"U+D801", "U+DC02">>, <<"U+D801", "U+DC2A">>>>,
     <<<<"U+D801", "U+DC03">>, <<"U+D801", "U+DC2B">>>>,
     <<<<"U+D801", "U+DC04">>, <<"U+D801", "U+DC2C">>>>,
     <<<<"U+D801", "U+DC05">>, <<"U+D801", "U+DC2D">>>>,
     <<<<"U+D801", "U+DC06">>, <<"U+D801", "U+DC2E">>>>,
     <<<<"U+D801", "U+DC07">>, <<"U+D801", "U+DC2F">>>>,
     <<<<"U+D801", "U+DC08">>, <<"U+D801", "U+DC30">>>>,
     <<<<"U+D801", "U+DC09">>, <<"U+D801", "U+DC31">>>>,
     <<<<"U+D801", "U+DC0A">>, <<"U+D801", "U+DC32">>>>,
     <<<<"U+D801", "U+DC0B">>, <<"U+D801", "U+DC33">>>>,
     <<<<"U+D801", "U+DC0C">>, <<"U+D801", "U+DC34">>>>,
     <<<<"U+D801", "U+DC0D">>, <<"U+D801", "U+DC35">>>>,
     <<<<"U+D801", "U+DC0E">>, <<"U+D801", "U+DC36">>>>,
     <<<<"U+D801", "U+DC0F">>, <<"U+D801", "U+DC37">>>>,
     <<<<"U+D801", "U+DC10">>, <<"U+D801", "U+DC38">>>>,
     <<<<"U+D801", "U+DC11">>, <<"U+D801", "U+DC39">>>>,
     <<<<"U+D801", "U+DC12">>, <<"U+D801", "U+DC3A">>>>,
     <<<<"U+D801", "U+DC13">>, <<"U+D801", "U+DC3B">>>>,
     <<<<"U+D801", "U+DC14">>, <<"U+D801", "U+DC3C">>>>,
     <<<<"U+D801", "U+DC15">>, <<"U+D801", "U+DC3D">>>>,
     <<<<"U+D801", "U+DC16">>, <<"U+D801", "U+DC3E">>>>,
     <<<<"U+D801", "U+DC17">>, <<"U+D801", "U+DC3F">>>>,
     <<<<"U+D801", "U+DC18">>, <<"U+D801", "U+DC40">>>>,
     <<<<"U+D801", "U+DC19">>, <<"U+D801", "U+DC41">>>>,
     <<<<"U+D801", "U+DC1A">>, <<"U+D801", "U+DC42">>>>,
     <<<<"U+D801", "U+DC1B">>, <<"U+D801", "U+DC43">>>>,
     <<<<"U+D801", "U+DC1C">>, <<"U+D801", "U+DC44">>>>,
     <<<<"U+D801", "U+DC1D">>, <<"U+D801", "U+DC45">>>>,
     <<<<"U+D801", "U+DC1E">>, <<"U+D801", "U+DC46">>>>,
     <<<<"U+D801", "U+DC1F">>, <<"U+D801", "U+DC47">>>>,
     <<<<"U+D801", "U+DC20">>, <<"U+D801", "U+DC48">>>>,
     <<<<"U+D801", "U+DC21">>, <<"U+D801", "U+DC49">>>>,
     <<<<"U+D801", "U+DC22">>, <<"U+D801", "U+DC4A">>>>,
     <<<<"U+D801", "U+DC23">>, <<"U+D801", "U+DC4B">>>>,
     <<<<"U+D801", "U+DC24">>, <<"U+D801", "U+DC4C">>>>,
     <<<<"U+D801", "U+DC25">>, <<"U+D801", "U+DC4D">>>>,
     <<<<"U+D801", "U+DC26">>, <<"U+D801", "U+DC4E">>>>,
     <<<<"U+D801", "U+DC27">>, <<"U+D801", "U+DC4F">>>>,
     <<<<"U+D801", "U+DCB0">>, <<"U+D801", "U+DCD8">>>>,
     <<<<"U+D801", "U+DCB1">>, <<"U+D801", "U+DCD9">>>>,
     <<<<"U+D801", "U+DCB2">>, <<"U+D801", "U+DCDA">>>>,
     <<<<"U+D801", "U+DCB3">>, <<"U+D801", "U+DCDB">>>>,
     <<<<"U+D801", "U+DCB4">>, <<"U+D801", "U+DCDC">>>>,
     <<<<"U+D801", "U+DCB5">>, <<"U+D801", "U+DCDD">>>>,
     <<<<"U+D801", "U+DCB6">>, <<"U+D801", "U+DCDE">>>>,
     <<<<"U+D801", "U+DCB7">>, <<"U+D801", "U+DCDF">>>>,
     <<<<"U+D801", "U+DCB8">>, <<"U+D801", "U+DCE0">>>>,
     <<<<"U+D801", "U+DCB9">>, <<"U+D801", "U+DCE1">>>>,
     <<<<"U+D801", "U+DCBA">>, <<"U+D801", "U+DCE2">>>>,
     <<<<"U+D801", "U+DCBB">>, <<"U+D801", "U+DCE3">>>>,
     <<<<"U+D801", "U+DCBC">>, <<"U+D801", "U+DCE4">>>>,
     <<<<"U+D801", "U+DCBD">>, <<"U+D801", "U+DCE5">>>>,
     <<<<"U+D801", "U+DCBE">>, <<"U+D801", "U+DCE6">>>>,
     <<<<"U+D801", "U+DCBF">>, <<"U+D801", "U+DCE7">>>>,
     <<<<"U+D801", "U+DCC0">>, <<"U+D801", "U+DCE8">>>>,
     <<<<"U+D801", "U+DCC1">>, <<"U+D801", "U+DCE9">>>>,
     <<<<"U+D801", "U+DCC2">>, <<"U+D801", "U+DCEA">>>>,
     <<<<"U+D801", "U+DCC3">>, <<"U+D801", "U+DCEB">>>>,
     <<<<"U+D801", "U+DCC4">>, <<"U+D801", "U+DCEC">>>>,
     <<<<"U+D801", "U+DCC5">>, <<"U+D801", "U+DCED">>>>,
     <<<<"U+D801", "U+DCC6">>, <<"U+D801", "U+DCEE">>>>,
     <<<<"U+D801", "U+DCC7">>, <<"U+D801", "U+DCEF">>>>,
     <<<<"U+D801", "U+DCC8">>, <<"U+D801", "U+DCF0">>>>,
     <<<<"U+D801", "U+DCC9">>, <<"U+D801", "U+DCF1">>>>,
     <<<<"U+D801", "U+DCCA">>, <<"U+D801", "U+DCF2">>>>,
     <<<<"U+D801", "U+DCCB">>, <<"U+D801", "U+DCF3">>>>,
     <<<<"U+D801", "U+DCCC">>, <<"U+D801", "U+DCF4">>>>,
     <<<<"U+D801", "U+DCCD">>, <<"U+D801", "U+DCF5">>>>,
     <<<<"U+D801", "U+DCCE">>, <<"U+D801", "U+DCF6">>>>,
     <<<<"U+D801", "U+DCCF">>, <<"U+D801", "U+DCF7">>>>,
     <<<<"U+D801", "U+DCD0">>, <<"U+D801", "U+DCF8">>>>,
     <<<<"U+D801", "U+DCD1">>, <<"U+D801", "U+DCF9">>>>,
     <<<<"U+D801", "U+DCD2">>, <<"U+D801", "U+DCFA">>>>,
     <<<<"U+D801", "U+DCD3">>, <<"U+D801", "U+DCFB">>>>,
     <<<<"U+D801", "U+DD70">>, <<"U+D801", "U+DD97">>>>,
     <<<<"U+D801", "U+DD71">>, <<"U+D801", "U+DD98">>>>,
     <<<<"U+D801", "U+DD72">>, <<"U+D801", "U+DD99">>>>,
     <<<<"U+D801", "U+DD73">>, <<"U+D801", "U+DD9A">>>>,
     <<<<"U+D801", "U+DD74">>, <<"U+D801", "U+DD9B">>>>,
     <<<<"U+D801", "U+DD75">>, <<"U+D801", "U+DD9C">>>>,
     <<<<"U+D801", "U+DD76">>, <<"U+D801", "U+DD9D">>>>,
     <<<<"U+D801", "U+DD77">>, <<"U+D801", "U+DD9E">>>>,
     <<<<"U+D801", "U+DD78">>, <<"U+D801", "U+DD9F">>>>,
     <<<<"U+D801", "U+DD79">>, <<"U+D801", "U+DDA0">>>>,
     <<<<"U+D801", "U+DD7A">>, <<"U+D801", "U+DDA1">>>>,
     <<<<"U+D801", "U+DD7C">>, <<"U+D801", "U+DDA3">>>>,
     <<<<"U+D801", "U+DD7D">>, <<"U+D801", "U+DDA4">>>>,
     <<<<"U+D801", "U+DD7E">>, <<"U+D801", "U+DDA5">>>>,
     <<<<"U+D801", "U+DD7F">>, <<"U+D801", "U+DDA6">>>>,
     <<<<"U+D801", "U+DD80">>, <<"U+D801", "U+DDA7">>>>,
     <<<<"U+D801", "U+DD81">>, <<"U+D801", "U+DDA8">>>>,
     <<<<"U+D801", "U+DD82">>, <<"U+D801", "U+DDA9">>>>,
     <<<<"U+D801", "U+DD83">>, <<"U+D801", "U+DDAA">>>>,
     <<<<"U+D801", "U+DD84">>, <<"U+D801", "U+DDAB">>>>,
     <<<<"U+D801", "U+DD85">>, <<"U+D801", "U+DDAC">>>>,
     <<<<"U+D801", "U+DD86">>, <<"U+D801", "U+DDAD">>>>,
     <<<<"U+D801", "U+DD87">>, <<"U+D801", "U+DDAE">>>>,
     <<<<"U+D801", "U+DD88">>, <<"U+D801", "U+DDAF">>>>,
     <<<<"U+D801", "U+DD89">>, <<"U+D801", "U+DDB0">>>>,
     <<<<"U+D801", "U+DD8A">>, <<"U+D801", "U+DDB1">>>>,
     <<<<"U+D801", "U+DD8C">>, <<"U+D801", "U+DDB3">>>>,
     <<<<"U+D801", "U+DD8D">>, <<"U+D801", "U+DDB4">>>>,
     <<<<"U+D801", "U+DD8E">>, <<"U+D801", "U+DDB5">>>>,
     <<<<"U+D801", "U+DD8F">>, <<"U+D801", "U+DDB6">>>>,
     <<<<"U+D801", "U+DD90">>, <<"U+D801", "U+DDB7">>>>,
     <<<<"U+D801", "U+DD91">>, <<"U+D801", "U+DDB8">>>>,
     <<<<"U+D801", "U+DD92">>, <<"U+D801", "U+DDB9">>>>,
     <<<<"U+D801", "U+DD94">>, <<"U+D801", "U+DDBB">>>>,
     <<<<"U+D801", "U+DD95">>, <<"U+D801", "U+DDBC">>>>,
     <<<<"U+D803", "U+DC80">>, <<"U+D803", "U+DCC0">>>>,
     <<<<"U+D803", "U+DC81">>, <<"U+D803", "U+DCC1">>>>,
     <<<<"U+D803", "U+DC82">>, <<"U+D803", "U+DCC2">>>>,
     <<<<"U+D803", "U+DC83">>, <<"U+D803", "U+DCC3">>>>,
     <<<<"U+D803", "U+DC84">>, <<"U+D803", "U+DCC4">>>>,
     <<<<"U+D803", "U+DC85">>, <<"U+D803", "U+DCC5">>>>,
     <<<<"U+D803", "U+DC86">>, <<"U+D803", "U+DCC6">>>>,
     <<<<"U+D803", "U+DC87">>, <<"U+D803", "U+DCC7">>>>,
     <<<<"U+D803", "U+DC88">>, <<"U+D803", "U+DCC8">>>>,
     <<<<"U+D803", "U+DC89">>, <<"U+D803", "U+DCC9">>>>,
     <<<<"U+D803", "U+DC8A">>, <<"U+D803", "U+DCCA">>>>,
     <<<<"U+D803", "U+DC8B">>, <<"U+D803", "U+DCCB">>>>,
     <<<<"U+D803", "U+DC8C">>, <<"U+D803", "U+DCCC">>>>,
     <<<<"U+D803", "U+DC8D">>, <<"U+D803", "U+DCCD">>>>,
     <<<<"U+D803", "U+DC8E">>, <<"U+D803", "U+DCCE">>>>,
     <<<<"U+D803", "U+DC8F">>, <<"U+D803", "U+DCCF">>>>,
     <<<<"U+D803", "U+DC90">>, <<"U+D803", "U+DCD0">>>>,
     <<<<"U+D803", "U+DC91">>, <<"U+D803", "U+DCD1">>>>,
     <<<<"U+D803", "U+DC92">>, <<"U+D803", "U+DCD2">>>>,
     <<<<"U+D803", "U+DC93">>, <<"U+D803", "U+DCD3">>>>,
     <<<<"U+D803", "U+DC94">>, <<"U+D803", "U+DCD4">>>>,
     <<<<"U+D803", "U+DC95">>, <<"U+D803", "U+DCD5">>>>,
     <<<<"U+D803", "U+DC96">>, <<"U+D803", "U+DCD6">>>>,
     <<<<"U+D803", "U+DC97">>, <<"U+D803", "U+DCD7">>>>,
     <<<<"U+D803", "U+DC98">>, <<"U+D803", "U+DCD8">>>>,
     <<<<"U+D803", "U+DC99">>, <<"U+D803", "U+DCD9">>>>,
     <<<<"U+D803", "U+DC9A">>, <<"U+D803", "U+DCDA">>>>,
     <<<<"U+D803", "U+DC9B">>, <<"U+D803", "U+DCDB">>>>,
     <<<<"U+D803", "U+DC9C">>, <<"U+D803", "U+DCDC">>>>,
     <<<<"U+D803", "U+DC9D">>, <<"U+D803", "U+DCDD">>>>,
     <<<<"U+D803", "U+DC9E">>, <<"U+D803", "U+DCDE">>>>,
     <<<<"U+D803", "U+DC9F">>, <<"U+D803", "U+DCDF">>>>,
     <<<<"U+D803", "U+DCA0">>, <<"U+D803", "U+DCE0">>>>,
     <<<<"U+D803", "U+DCA1">>, <<"U+D803", "U+DCE1">>>>,
     <<<<"U+D803", "U+DCA2">>, <<"U+D803", "U+DCE2">>>>,
     <<<<"U+D803", "U+DCA3">>, <<"U+D803", "U+DCE3">>>>,
     <<<<"U+D803", "U+DCA4">>, <<"U+D803", "U+DCE4">>>>,
     <<<<"U+D803", "U+DCA5">>, <<"U+D803", "U+DCE5">>>>,
     <<<<"U+D803", "U+DCA6">>, <<"U+D803", "U+DCE6">>>>,
     <<<<"U+D803", "U+DCA7">>, <<"U+D803", "U+DCE7">>>>,
     <<<<"U+D803", "U+DCA8">>, <<"U+D803", "U+DCE8">>>>,
     <<<<"U+D803", "U+DCA9">>, <<"U+D803", "U+DCE9">>>>,
     <<<<"U+D803", "U+DCAA">>, <<"U+D803", "U+DCEA">>>>,
     <<<<"U+D803", "U+DCAB">>, <<"U+D803", "U+DCEB">>>>,
     <<<<"U+D803", "U+DCAC">>, <<"U+D803", "U+DCEC">>>>,
     <<<<"U+D803", "U+DCAD">>, <<"U+D803", "U+DCED">>>>,
     <<<<"U+D803", "U+DCAE">>, <<"U+D803", "U+DCEE">>>>,
     <<<<"U+D803", "U+DCAF">>, <<"U+D803", "U+DCEF">>>>,
     <<<<"U+D803", "U+DCB0">>, <<"U+D803", "U+DCF0">>>>,
     <<<<"U+D803", "U+DCB1">>, <<"U+D803", "U+DCF1">>>>,
     <<<<"U+D803", "U+DCB2">>, <<"U+D803", "U+DCF2">>>>,
     <<<<"U+D803", "U+DD50">>, <<"U+D803", "U+DD70">>>>,
     <<<<"U+D803", "U+DD51">>, <<"U+D803", "U+DD71">>>>,
     <<<<"U+D803", "U+DD52">>, <<"U+D803", "U+DD72">>>>,
     <<<<"U+D803", "U+DD53">>, <<"U+D803", "U+DD73">>>>,
     <<<<"U+D803", "U+DD54">>, <<"U+D803", "U+DD74">>>>,
     <<<<"U+D803", "U+DD55">>, <<"U+D803", "U+DD75">>>>,
     <<<<"U+D803", "U+DD56">>, <<"U+D803", "U+DD76">>>>,
     <<<<"U+D803", "U+DD57">>, <<"U+D803", "U+DD77">>>>,
     <<<<"U+D803", "U+DD58">>, <<"U+D803", "U+DD78">>>>,
     <<<<"U+D803", "U+DD59">>, <<"U+D803", "U+DD79">>>>,
     <<<<"U+D803", "U+DD5A">>, <<"U+D803", "U+DD7A">>>>,
     <<<<"U+D803", "U+DD5B">>, <<"U+D803", "U+DD7B">>>>,
     <<<<"U+D803", "U+DD5C">>, <<"U+D803", "U+DD7C">>>>,
     <<<<"U+D803", "U+DD5D">>, <<"U+D803", "U+DD7D">>>>,
     <<<<"U+D803", "U+DD5E">>, <<"U+D803", "U+DD7E">>>>,
     <<<<"U+D803", "U+DD5F">>, <<"U+D803", "U+DD7F">>>>,
     <<<<"U+D803", "U+DD60">>, <<"U+D803", "U+DD80">>>>,
     <<<<"U+D803", "U+DD61">>, <<"U+D803", "U+DD81">>>>,
     <<<<"U+D803", "U+DD62">>, <<"U+D803", "U+DD82">>>>,
     <<<<"U+D803", "U+DD63">>, <<"U+D803", "U+DD83">>>>,
     <<<<"U+D803", "U+DD64">>, <<"U+D803", "U+DD84">>>>,
     <<<<"U+D803", "U+DD65">>, <<"U+D803", "U+DD85">>>>,
     <<<<"U+D806", "U+DCA0">>, <<"U+D806", "U+DCC0">>>>,
     <<<<"U+D806", "U+DCA1">>, <<"U+D806", "U+DCC1">>>>,
     <<<<"U+D806", "U+DCA2">>, <<"U+D806", "U+DCC2">>>>,
     <<<<"U+D806", "U+DCA3">>, <<"U+D806", "U+DCC3">>>>,
     <<<<"U+D806", "U+DCA4">>, <<"U+D806", "U+DCC4">>>>,
     <<<<"U+D806", "U+DCA5">>, <<"U+D806", "U+DCC5">>>>,
     <<<<"U+D806", "U+DCA6">>, <<"U+D806", "U+DCC6">>>>,
     <<<<"U+D806", "U+DCA7">>, <<"U+D806", "U+DCC7">>>>,
     <<<<"U+D806", "U+DCA8">>, <<"U+D806", "U+DCC8">>>>,
     <<<<"U+D806", "U+DCA9">>, <<"U+D806", "U+DCC9">>>>,
     <<<<"U+D806", "U+DCAA">>, <<"U+D806", "U+DCCA">>>>,
     <<<<"U+D806", "U+DCAB">>, <<"U+D806", "U+DCCB">>>>,
     <<<<"U+D806", "U+DCAC">>, <<"U+D806", "U+DCCC">>>>,
     <<<<"U+D806", "U+DCAD">>, <<"U+D806", "U+DCCD">>>>,
     <<<<"U+D806", "U+DCAE">>, <<"U+D806", "U+DCCE">>>>,
     <<<<"U+D806", "U+DCAF">>, <<"U+D806", "U+DCCF">>>>,
     <<<<"U+D806", "U+DCB0">>, <<"U+D806", "U+DCD0">>>>,
     <<<<"U+D806", "U+DCB1">>, <<"U+D806", "U+DCD1">>>>,
     <<<<"U+D806", "U+DCB2">>, <<"U+D806", "U+DCD2">>>>,
     <<<<"U+D806", "U+DCB3">>, <<"U+D806", "U+DCD3">>>>,
     <<<<"U+D806", "U+DCB4">>, <<"U+D806", "U+DCD4">>>>,
     <<<<"U+D806", "U+DCB5">>, <<"U+D806", "U+DCD5">>>>,
     <<<<"U+D806", "U+DCB6">>, <<"U+D806", "U+DCD6">>>>,
     <<<<"U+D806", "U+DCB7">>, <<"U+D806", "U+DCD7">>>>,
     <<<<"U+D806", "U+DCB8">>, <<"U+D806", "U+DCD8">>>>,
     <<<<"U+D806", "U+DCB9">>, <<"U+D806", "U+DCD9">>>>,
     <<<<"U+D806", "U+DCBA">>, <<"U+D806", "U+DCDA">>>>,
     <<<<"U+D806", "U+DCBB">>, <<"U+D806", "U+DCDB">>>>,
     <<<<"U+D806", "U+DCBC">>, <<"U+D806", "U+DCDC">>>>,
     <<<<"U+D806", "U+DCBD">>, <<"U+D806", "U+DCDD">>>>,
     <<<<"U+D806", "U+DCBE">>, <<"U+D806", "U+DCDE">>>>,
     <<<<"U+D806", "U+DCBF">>, <<"U+D806", "U+DCDF">>>>,
     <<<<"U+D81B", "U+DE40">>, <<"U+D81B", "U+DE60">>>>,
     <<<<"U+D81B", "U+DE41">>, <<"U+D81B", "U+DE61">>>>,
     <<<<"U+D81B", "U+DE42">>, <<"U+D81B", "U+DE62">>>>,
     <<<<"U+D81B", "U+DE43">>, <<"U+D81B", "U+DE63">>>>,
     <<<<"U+D81B", "U+DE44">>, <<"U+D81B", "U+DE64">>>>,
     <<<<"U+D81B", "U+DE45">>, <<"U+D81B", "U+DE65">>>>,
     <<<<"U+D81B", "U+DE46">>, <<"U+D81B", "U+DE66">>>>,
     <<<<"U+D81B", "U+DE47">>, <<"U+D81B", "U+DE67">>>>,
     <<<<"U+D81B", "U+DE48">>, <<"U+D81B", "U+DE68">>>>,
     <<<<"U+D81B", "U+DE49">>, <<"U+D81B", "U+DE69">>>>,
     <<<<"U+D81B", "U+DE4A">>, <<"U+D81B", "U+DE6A">>>>,
     <<<<"U+D81B", "U+DE4B">>, <<"U+D81B", "U+DE6B">>>>,
     <<<<"U+D81B", "U+DE4C">>, <<"U+D81B", "U+DE6C">>>>,
     <<<<"U+D81B", "U+DE4D">>, <<"U+D81B", "U+DE6D">>>>,
     <<<<"U+D81B", "U+DE4E">>, <<"U+D81B", "U+DE6E">>>>,
     <<<<"U+D81B", "U+DE4F">>, <<"U+D81B", "U+DE6F">>>>,
     <<<<"U+D81B", "U+DE50">>, <<"U+D81B", "U+DE70">>>>,
     <<<<"U+D81B", "U+DE51">>, <<"U+D81B", "U+DE71">>>>,
     <<<<"U+D81B", "U+DE52">>, <<"U+D81B", "U+DE72">>>>,
     <<<<"U+D81B", "U+DE53">>, <<"U+D81B", "U+DE73">>>>,
     <<<<"U+D81B", "U+DE54">>, <<"U+D81B", "U+DE74">>>>,
     <<<<"U+D81B", "U+DE55">>, <<"U+D81B", "U+DE75">>>>,
     <<<<"U+D81B", "U+DE56">>, <<"U+D81B", "U+DE76">>>>,
     <<<<"U+D81B", "U+DE57">>, <<"U+D81B", "U+DE77">>>>,
     <<<<"U+D81B", "U+DE58">>, <<"U+D81B", "U+DE78">>>>,
     <<<<"U+D81B", "U+DE59">>, <<"U+D81B", "U+DE79">>>>,
     <<<<"U+D81B", "U+DE5A">>, <<"U+D81B", "U+DE7A">>>>,
     <<<<"U+D81B", "U+DE5B">>, <<"U+D81B", "U+DE7B">>>>,
     <<<<"U+D81B", "U+DE5C">>, <<"U+D81B", "U+DE7C">>>>,
     <<<<"U+D81B", "U+DE5D">>, <<"U+D81B", "U+DE7D">>>>,
     <<<<"U+D81B", "U+DE5E">>, <<"U+D81B", "U+DE7E">>>>,
     <<<<"U+D81B", "U+DE5F">>, <<"U+D81B", "U+DE7F">>>>,
     <<<<"U+D81B", "U+DEA0">>, <<"U+D81B", "U+DEBB">>>>,
     <<<<"U+D81B", "U+DEA1">>, <<"U+D81B", "U+DEBC">>>>,
     <<<<"U+D81B", "U+DEA2">>, <<"U+D81B", "U+DEBD">>>>,
     <<<<"U+D81B", "U+DEA3">>, <<"U+D81B", "U+DEBE">>>>,
     <<<<"U+D81B", "U+DEA4">>, <<"U+D81B", "U+DEBF">>>>,
     <<<<"U+D81B", "U+DEA5">>, <<"U+D81B", "U+DEC0">>>>,
     <<<<"U+D81B", "U+DEA6">>, <<"U+D81B", "U+DEC1">>>>,
     <<<<"U+D81B", "U+DEA7">>, <<"U+D81B", "U+DEC2">>>>,
     <<<<"U+D81B", "U+DEA8">>, <<"U+D81B", "U+DEC3">>>>,
     <<<<"U+D81B", "U+DEA9">>, <<"U+D81B", "U+DEC4">>>>,
     <<<<"U+D81B", "U+DEAA">>, <<"U+D81B", "U+DEC5">>>>,
     <<<<"U+D81B", "U+DEAB">>, <<"U+D81B", "U+DEC6">>>>,
     <<<<"U+D81B", "U+DEAC">>, <<"U+D81B", "U+DEC7">>>>,
     <<<<"U+D81B", "U+DEAD">>, <<"U+D81B", "U+DEC8">>>>,
     <<<<"U+D81B", "U+DEAE">>, <<"U+D81B", "U+DEC9">>>>,
     <<<<"U+D81B", "U+DEAF">>, <<"U+D81B", "U+DECA">>>>,
     <<<<"U+D81B", "U+DEB0">>, <<"U+D81B", "U+DECB">>>>,
     <<<<"U+D81B", "U+DEB1">>, <<"U+D81B", "U+DECC">>>>,
     <<<<"U+D81B", "U+DEB2">>, <<"U+D81B", "U+DECD">>>>,
     <<<<"U+D81B", "U+DEB3">>, <<"U+D81B", "U+DECE">>>>,
     <<<<"U+D81B", "U+DEB4">>, <<"U+D81B", "U+DECF">>>>,
     <<<<"U+D81B", "U+DEB5">>, <<"U+D81B", "U+DED0">>>>,
     <<<<"U+D81B", "U+DEB6">>, <<"U+D81B", "U+DED1">>>>,
     <<<<"U+D81B", "U+DEB7">>, <<"U+D81B", "U+DED2">>>>,
     <<<<"U+D81B", "U+DEB8">>, <<"U+D81B", "U+DED3">>>>,
     <<<<"U+D83A", "U+DD00">>, <<"U+D83A", "U+DD22">>>>,
     <<<<"U+D83A", "U+DD01">>, <<"U+D83A", "U+DD23">>>>,
     <<<<"U+D83A", "U+DD02">>, <<"U+D83A", "U+DD24">>>>,
     <<<<"U+D83A", "U+DD03">>, <<"U+D83A", "U+DD25">>>>,
     <<<<"U+D83A", "U+DD04">>, <<"U+D83A", "U+DD26">>>>,
     <<<<"U+D83A", "U+DD05">>, <<"U+D83A", "U+DD27">>>>,
     <<<<"U+D83A", "U+DD06">>, <<"U+D83A", "U+DD28">>>>,
     <<<<"U+D83A", "U+DD07">>, <<"U+D83A", "U+DD29">>>>,
     <<<<"U+D83A", "U+DD08">>, <<"U+D83A", "U+DD2A">>>>,
     <<<<"U+D83A", "U+DD09">>, <<"U+D83A", "U+DD2B">>>>,
     <<<<"U+D83A", "U+DD0A">>, <<"U+D83A", "U+DD2C">>>>,
     <<<<"U+D83A", "U+DD0B">>, <<"U+D83A", "U+DD2D">>>>,
     <<<<"U+D83A", "U+DD0C">>, <<"U+D83A", "U+DD2E">>>>,
     <<<<"U+D83A", "U+DD0D">>, <<"U+D83A", "U+DD2F">>>>,
     <<<<"U+D83A", "U+DD0E">>, <<"U+D83A", "U+DD30">>>>,
     <<<<"U+D83A", "U+DD0F">>, <<"U+D83A", "U+DD31">>>>,
     <<<<"U+D83A", "U+DD10">>, <<"U+D83A", "U+DD32">>>>,
     <<<<"U+D83A", "U+DD11">>, <<"U+D83A", "U+DD33">>>>,
     <<<<"U+D83A", "U+DD12">>, <<"U+D83A", "U+DD34">>>>,
     <<<<"U+D83A", "U+DD13">>, <<"U+D83A", "U+DD35">>>>,
     <<<<"U+D83A", "U+DD14">>, <<"U+D83A", "U+DD36">>>>,
     <<<<"U+D83A", "U+DD15">>, <<"U+D83A", "U+DD37">>>>,
     <<<<"U+D83A", "U+DD16">>, <<"U+D83A", "U+DD38">>>>,
     <<<<"U+D83A", "U+DD17">>, <<"U+D83A", "U+DD39">>>>,
     <<<<"U+D83A", "U+DD18">>, <<"U+D83A", "U+DD3A">>>>,
     <<<<"U+D83A", "U+DD19">>, <<"U+D83A", "U+DD3B">>>>,
     <<<<"U+D83A", "U+DD1A">>, <<"U+D83A", "U+DD3C">>>>,
     <<<<"U+D83A", "U+DD1B">>, <<"U+D83A", "U+DD3D">>>>,
     <<<<"U+D83A", "U+DD1C">>, <<"U+D83A", "U+DD3E">>>>,
     <<<<"U+D83A", "U+DD1D">>, <<"U+D83A", "U+DD3F">>>>,
     <<<<"U+D83A", "U+DD1E">>, <<"U+D83A", "U+DD40">>>>,
     <<<<"U+D83A", "U+DD1F">>, <<"U+D83A", "U+DD41">>>>,
     <<<<"U+D83A", "U+DD20">>, <<"U+D83A", "U+DD42">>>>,
     <<<<"U+D83A", "U+DD21">>, <<"U+D83A", "U+DD43">>>>}

\* The code units up to U+FFFF with the Unicode property Case_Ignorable.
IgnorableUnits ==
    {"'", ".", ":", "^", Backtick, "U+00A8", "U+00AD", "U+00AF", "U+00B4", "U+00B7", "U+00B8",
     "U+02B0", "U+02B1", "U+02B2", "U+02B3", "U+02B4", "U+02B5", "U+02B6", "U+02B7", "U+02B8",
     "U+02B9", "U+02BA", "U+02BB", "U+02BC", "U+02BD", "U+02BE", "U+02BF", "U+02C0", "U+02C1",
     "U+02C2", "U+02C3", "U+02C4", "U+02C5", "U+02C6", "U+02C7", "U+02C8", "U+02C9", "U+02CA",
     "U+02CB", "U+02CC", "U+02CD", "U+02CE", "U+02CF", "U+02D0", "U+02D1", "U+02D2", "U+02D3",
     "U+02D4", "U+02D5", "U+02D6", "U+02D7", "U+02D8", "U+02D9", "U+02DA", "U+02DB", "U+02DC",
     "U+02DD", "U+02DE", "U+02DF", "U+02E0", "U+02E1", "U+02E2", "U+02E3", "U+02E4", "U+02E5",
     "U+02E6", "U+02E7", "U+02E8", "U+02E9", "U+02EA", "U+02EB", "U+02EC", "U+02ED", "U+02EE",
     "U+02EF", "U+02F0", "U+02F1", "U+02F2", "U+02F3", "U+02F4", "U+02F5", "U+02F6", "U+02F7",
     "U+02F8", "U+02F9", "U+02FA", "U+02FB", "U+02FC", "U+02FD", "U+02FE", "U+02FF", "U+0300",
     "U+0301", "U+0302", "U+0303", "U+0304", "U+0305", "U+0306", "U+0307", "U+0308", "U+0309",
     "U+030A", "U+030B", "U+030C", "U+030D", "U+030E", "U+030F", "U+0310", "U+0311", "U+0312",
     "U+0313", "U+0314", "U+0315", "U+0316", "U+0317", "U+0318", "U+0319", "U+031A", "U+031B",
     "U+031C", "U+031D", "U+031E", "U+031F", "U+0320", "U+0321", "U+0322", "U+0323", "U+0324",
     "U+0325", "U+0326", "U+0327", "U+0328", "U+0329", "U+032A", "U+032B", "U+032C", "U+032D",
     "U+032E", "U+032F", "U+0330", "U+0331", "U+0332", "U+0333", "U+0334", "U+0335", "U+0336",
     "U+0337", "U+0338", "U+0339", "U+033A", "U+033B", "U+033C", "U+033D", "U+033E", "U+033F",
     "U+0340", "U+0341", "U+0342", "U+0343", "U+0344", "U+0345", "U+0346", "U+0347", "U+0348",
     "U+0349", "U+034A", "U+034B", "U+034C", "U+034D", "U+034E", "U+034F", "U+0350", "U+0351",
     "U+0352", "U+0353", "U+0354", "U+0355", "U+0356", "U+0357", "U+0358", "U+0359", "U+035A",
     "U+035B", "U+035C", "U+035D", "U+035E", "U+035F", "U+0360", "U+0361", "U+0362", "U+0363",
     "U+0364", "U+0365", "U+0366", "U+0367", "U+0368", "U+0369", "U+036A", "U+036B", "U+036C",
     "U+036D", "U+036E", "U+036F", "U+0374", "U+0375", "U+037A", "U+0384", "U+0385", "U+0387",
     "U+0483", "U+0484", "U+0485", "U+0486", "U+0487", "U+0488", "U+0489", "U+0559", "U+055F",
     "U+0591", "U+0592", "U+0593", "U+0594", "U+0595", "U+0596", "U+0597", "U+0598", "U+0599",
     "U+059A", "U+059B", "U+059C", "U+059D", "U+059E", "U+059F", "U+05A0", "U+05A1", "U+05A2",
     "U+05A3", "U+05A4", "U+05A5", "U+05A6", "U+05A7", "U+05A8", "U+05A9", "U+05AA", "U+05AB",
     "U+05AC", "U+05AD", "U+05AE", "U+05AF", "U+05B0", "U+05B1", "U+05B2", "U+05B3", "U+05B4",
     "U+05B5", "U+05B6", "U+05B7", "U+05B8", "U+05B9", "U+05BA", "U+05BB", "U+05BC", "U+05BD",
     "U+05BF", "U+05C1", "U+05C2", "U+05C4", "U+05C5", "U+05C7", "U+05F4", "U+0600", "U+0601",
     "U+0602", "U+0603", "U+0604", "U+0605", "U+0610", "U+0611", "U+0612", "U+0613", "U+0614",
     "U+0615", "U+0616", "U+0617", "U+0618", "U+0619", "U+061A", "U+061C", "U+0640", "U+064B",
     "U+064C", "U+064D", "U+064E", "U+064F", "U+0650", "U+0651", "U+0652", "U+0653", "U+0654",
     "U+0655", "U+0656", "U+0657", "U+0658", "U+0659", "U+065A", "U+065B", "U+065C", "U+065D",
     "U+065E", "U+065F", "U+0670", "U+06D6", "U+06D7", "U+06D8", "U+06D9", "U+06DA", "U+06DB",
     "U+06DC", "U+06DD", "U+06DF", "U+06E0", "U+06E1", "U+06E2", "U+06E3", "U+06E4", "U+06E5",
     "U+06E6", "U+06E7", "U+06E8", "U+06EA", "U+06EB", "U+06EC", "U+06ED", "U+070F", "U+0711",
     "U+0730", "U+0731", "U+0732", "U+0733", "U+0734", "U+0735", "U+0736", "U+0737", "U+0738",
     "U+0739", "U+073A", "U+073B", "U+073C", "U+073D", "U+073E", "U+073F", "U+0740", "U+0741",
     "U+0742", "U+0743", "U+0744", "U+0745", "U+0746", "U+0747", "U+0748", "U+0749", "U+074A",
     "U+07A6", "U+07A7", "U+07A8", "U+07A9", "U+07AA", "U+07AB", "U+07AC", "U+07AD", "U+07AE",
     "U+07AF", "U+07B0", "U+07EB", "U+07EC", "U+07ED", "U+07EE", "U+07EF", "U+07F0", "U+07F1",
     "U+07F2", "U+07F3", "U+07F4", "U+07F5", "U+07FA", "U+07FD", "U+0816", "U+0817", "U+0818",
     "U+0819", "U+081A", "U+081B", "U+081C", "U+081D", "U+081E", "U+081F", "U+0820", "U+0821",
     "U+0822", "U+0823", "U+0824", "U+0825", "U+0826", "U+0827", "U+0828", "U+0829", "U+082A",
     "U+082B", "U+082C", "U+082D", "U+0859", "U+085A", "U+085B", "U+0888", "U+0890", "U+0891",
     "U+0897", "U+0898", "U+0899", "U+089A", "U+089B", "U+089C", "U+089D", "U+089E", "U+089F",
     "U+08C9", "U+08CA", "U+08CB", "U+08CC", "U+08CD", "U+08CE", "U+08CF", "U+08D0", "U+08D1",
     "U+08D2", "U+08D3", "U+08D4", "U+08D5", "U+08D6", "U+08D7", "U+08D8", "U+08D9", "U+08DA",
     "U+08DB", "U+08DC", "U+08DD", "U+08DE", "U+08DF", "U+08E0", "U+08E1", "U+08E2", "U+08E3",
     "U+08E4", "U+08E5", "U+08E6", "U+08E7", "U+08E8", "U+08E9", "U+08EA", "U+08EB", "U+08EC",
     "U+08ED", "U+08EE", "U+08EF", "U+08F0", "U+08F1", "U+08F2", "U+08F3", "U+08F4", "U+08F5",
     "U+08F6", "U+08F7", "U+08F8", "U+08F9", "U+08FA", "U+08FB", "U+08FC", "U+08FD", "U+08FE",
     "U+08FF", "U+0900", "U+0901", "U+0902", "U+093A", "U+093C", "U+0941", "U+0942", "U+0943",
     "U+0944", "U+0945", "U+0946", "U+0947", "U+0948", "U+094D", "U+0951", "U+0952", "U+0953",
     "U+0954", "U+0955", "U+0956", "U+0957", "U+0962", "U+0963", "U+0971", "U+0981", "U+09BC",
     "U+09C1", "U+09C2", "U+09C3", "U+09C4", "U+09CD", "U+09E2", "U+09E3", "U+09FE", "U+0A01",
     "U+0A02", "U+0A3C", "U+0A41", "U+0A42", "U+0A47", "U+0A48", "U+0A4B", "U+0A4C", "U+0A4D",
     "U+0A51", "U+0A70", "U+0A71", "U+0A75", "U+0A81", "U+0A82", "U+0ABC", "U+0AC1", "U+0AC2",
     "U+0AC3", "U+0AC4", "U+0AC5", "U+0AC7", "U+0AC8", "U+0ACD", "U+0AE2", "U+0AE3", "U+0AFA",
     "U+0AFB", "U+0AFC", "U+0AFD", "U+0AFE", "U+0AFF", "U+0B01", "U+0B3C", "U+0B3F", "U+0B41",
     "U+0B42", "U+0B43", "U+0B44", "U+0B4D", "U+0B55", "U+0B56", "U+0B62", "U+0B63", "U+0B82",
     "U+0BC0", "U+0BCD", "U+0C00", "U+0C04", "U+0C3C", "U+0C3E", "U+0C3F", "U+0C40", "U+0C46",
     "U+0C47", "U+0C48", "U+0C4A", "U+0C4B", "U+0C4C", "U+0C4D", "U+0C55", "U+0C56", "U+0C62",
     "U+0C63", "U+0C81", "U+0CBC", "U+0CBF", "U+0CC6", "U+0CCC", "U+0CCD", "U+0CE2", "U+0CE3",
     "U+0D00", "U+0D01", "U+0D3B", "U+0D3C", "U+0D41", "U+0D42", "U+0D43", "U+0D44", "U+0D4D",
     "U+0D62", "U+0D63", "U+0D81", "U+0DCA", "U+0DD2", "U+0DD3", "U+0DD4", "U+0DD6", "U+0E31",
     "U+0E34", "U+0E35", "U+0E36", "U+0E37", "U+0E38", "U+0E39", "U+0E3A", "U+0E46", "U+0E47",
     "U+0E48", "U+0E49", "U+0E4A", "U+0E4B", "U+0E4C", "U+0E4D", "U+0E4E", "U+0EB1", "U+0EB4",
     "U+0EB5", "U+0EB6", "U+0EB7", "U+0EB8", "U+0EB9", "U+0EBA", "U+0EBB", "U+0EBC", "U+0EC6",
     "U+0EC8", "U+0EC9", "U+0ECA", "U+0ECB", "U+0ECC", "U+0ECD", "U+0ECE", "U+0F18", "U+0F19",
     "U+0F35", "U+0F37", "U+0F39", "U+0F71", "U+0F72", "U+0F73", "U+0F74", "U+0F75", "U+0F76",
     "U+0F77", "U+0F78", "U+0F79", "U+0F7A", "U+0F7B", "U+0F7C", "U+0F7D", "U+0F7E", "U+0F80",
     "U+0F81", "U+0F82", "U+0F83", "U+0F84", "U+0F86", "U+0F87", "U+0F8D", "U+0F8E", "U+0F8F",
     "U+0F90", "U+0F91", "U+0F92", "U+0F93", "U+0F94", "U+0F95", "U+0F96", "U+0F97", "U+0F99",
     "U+0F9A", "U+0F9B", "U+0F9C", "U+0F9D", "U+0F9E", "U+0F9F", "U+0FA0", "U+0FA1", "U+0FA2",
     "U+0FA3", "U+0FA4", "U+0FA5", "U+0FA6", "U+0FA7", "U+0FA8", "U+0FA9", "U+0FAA", "U+0FAB",
     "U+0FAC", "U+0FAD", "U+0FAE", "U+0FAF", "U+0FB0", "U+0FB1", "U+0FB2", "U+0FB3", "U+0FB4",
     "U+0FB5", "U+0FB6", "U+0FB7", "U+0FB8", "U+0FB9", "U+0FBA", "U+0FBB", "U+0FBC", "U+0FC6",
     "U+102D", "U+102E", "U+102F", "U+1030", "U+1032", "U+1033", "U+1034", "U+1035", "U+1036",
     "U+1037", "U+1039", "U+103A", "U+103D", "U+103E", "U+1058", "U+1059", "U+105E", "U+105F",
     "U+1060", "U+1071", "U+1072", "U+1073", "U+1074", "U+1082", "U+1085", "U+1086", "U+108D",
     "U+109D", "U+10FC", "U+135D", "U+135E", "U+135F", "U+1712", "U+1713", "U+1714", "U+1732",
     "U+1733", "U+1752", "U+1753", "U+1772", "U+1773", "U+17B4", "U+17B5", "U+17B7", "U+17B8",
     "U+17B9", "U+17BA", "U+17BB", "U+17BC", "U+17BD", "U+17C6", "U+17C9", "U+17CA", "U+17CB",
     "U+17CC", "U+17CD", "U+17CE", "U+17CF", "U+17D0", "U+17D1", "U+17D2", "U+17D3", "U+17D7",
     "U+17DD", "U+180B", "U+180C", "U+180D", "U+180E", "U+180F", "U+1843", "U+1885", "U+1886",
     "U+18A9", "U+1920", "U+1921", "U+1922", "U+1927", "U+1928", "U+1932", "U+1939", "U+193A",
     "U+193B", "U+1A17", "U+1A18", "U+1A1B", "U+1A56", "U+1A58", "U+1A59", "U+1A5A", "U+1A5B",
     "U+1A5C", "U+1A5D", "U+1A5E", "U+1A60", "U+1A62", "U+1A65", "U+1A66", "U+1A67", "U+1A68",
     "U+1A69", "U+1A6A", "U+1A6B", "U+1A6C", "U+1A73", "U+1A74", "U+1A75", "U+1A76", "U+1A77",
     "U+1A78", "U+1A79", "U+1A7A", "U+1A7B", "U+1A7C", "U+1A7F", "U+1AA7", "U+1AB0", "U+1AB1",
     "U+1AB2", "U+1AB3", "U+1AB4", "U+1AB5", "U+1AB6", "U+1AB7", "U+1AB8", "U+1AB9", "U+1ABA",
     "U+1ABB", "U+1ABC", "U+1ABD", "U+1ABE", "U+1ABF", "U+1AC0", "U+1AC1", "U+1AC2", "U+1AC3",
     "U+1AC4", "U+1AC5", "U+1AC6", "U+1AC7", "U+1AC8", "U+1AC9", "U+1ACA", "U+1ACB", "U+1ACC",
     "U+1ACD", "U+1ACE", "U+1ACF", "U+1AD0", "U+1AD1", "U+1AD2", "U+1AD3", "U+1AD4", "U+1AD5",
     "U+1AD6", "U+1AD7", "U+1AD8", "U+1AD9", "U+1ADA", "U+1ADB", "U+1ADC", "U+1ADD", "U+1AE0",
     "U+1AE1", "U+1AE2", "U+1AE3", "U+1AE4", "U+1AE5", "U+1AE6", "U+1AE7", "U+1AE8", "U+1AE9",
     "U+1AEA", "U+1AEB", "U+1B00", "U+1B01", "U+1B02", "U+1B03", "U+1B34", "U+1B36", "U+1B37",
     "U+1B38", "U+1B39", "U+1B3A", "U+1B3C", "U+1B42", "U+1B6B", "U+1B6C", "U+1B6D", "U+1B6E",
     "U+1B6F", "U+1B70", "U+1B71", "U+1B72", "U+1B73", "U+1B80", "U+1B81", "U+1BA2", "U+1BA3",
     "U+1BA4", "U+1BA5", "U+1BA8", "U+1BA9", "U+1BAB", "U+1BAC", "U+1BAD", "U+1BE6", "U+1BE8",
     "U+1BE9", "U+1BED", "U+1BEF", "U+1BF0", "U+1BF1", "U+1C2C", "U+1C2D", "U+1C2E", "U+1C2F",
     "U+1C30", "U+1C31", "U+1C32", "U+1C33", "U+1C36", "U+1C37", "U+1C78", "U+1C79", "U+1C7A",
     "U+1C7B", "U+1C7C", "U+1C7D", "U+1CD0", "U+1CD1", "U+1CD2", "U+1CD4", "U+1CD5", "U+1CD6",
     "U+1CD7", "U+1CD8", "U+1CD9", "U+1CDA", "U+1CDB", "U+1CDC", "U+1CDD", "U+1CDE", "U+1CDF",
     "U+1CE0", "U+1CE2", "U+1CE3", "U+1CE4", "U+1CE5", "U+1CE6", "U+1CE7", "U+1CE8", "U+1CED",
     "U+1CF4", "U+1CF8", "U+1CF9", "U+1D2C", "U+1D2D", "U+1D2E", "U+1D2F", "U+1D30", "U+1D31",
     "U+1D32", "U+1D33", "U+1D34", "U+1D35", "U+1D36", "U+1D37", "U+1D38", "U+1D39", "U+1D3A",
     "U+1D3B", "U+1D3C", "U+1D3D", "U+1D3E", "U+1D3F", "U+1D40", "U+1D41", "U+1D42", "U+1D43",
     "U+1D44", "U+1D45", "U+1D46", "U+1D47", "U+1D48", "U+1D49", "U+1D4A", "U+1D4B", "U+1D4C",
     "U+1D4D", "U+1D4E", "U+1D4F", "U+1D50", "U+1D51", "U+1D52", "U+1D53", "U+1D54", "U+1D55",
     "U+1D56", "U+1D57", "U+1D58", "U+1D59", "U+1D5A", "U+1D5B", "U+1D5C", "U+1D5D", "U+1D5E",
     "U+1D5F", "U+1D60", "U+1D61", "U+1D62", "U+1D63", "U+1D64", "U+1D65", "U+1D66", "U+1D67",
     "U+1D68", "U+1D69", "U+1D6A", "U+1D78", "U+1D9B", "U+1D9C", "U+1D9D", "U+1D9E", "U+1D9F",
     "U+1DA0", "U+1DA1", "U+1DA2", "U+1DA3", "U+1DA4", "U+1DA5", "U+1DA6", "U+1DA7", "U+1DA8",
     "U+1DA9", "U+1DAA", "U+1DAB", "U+1DAC", "U+1DAD", "U+1DAE", "U+1DAF", "U+1DB0", "U+1DB1",
     "U+1DB2", "U+1DB3", "U+1DB4", "U+1DB5", "U+1DB6", "U+1DB7", "U+1DB8", "U+1DB9", "U+1DBA",
     "U+1DBB", "U+1DBC", "U+1DBD", "U+1DBE", "U+1DBF", "U+1DC0", "U+1DC1", "U+1DC2", "U+1DC3",
     "U+1DC4", "U+1DC5", "U+1DC6", "U+1DC7", "U+1DC8", "U+1DC9", "U+1DCA", "U+1DCB", "U+1DCC",
     "U+1DCD", "U+1DCE", "U+1DCF", "U+1DD0", "U+1DD1", "U+1DD2", "U+1DD3", "U+1DD4", "U+1DD5",
     "U+1DD6", "U+1DD7", "U+1DD8", "U+1DD9", "U+1DDA", "U+1DDB", "U+1DDC", "U+1DDD", "U+1DDE",
     "U+1DDF", "U+1DE0", "U+1DE1", "U+1DE2", "U+1DE3", "U+1DE4", "U+1DE5", "U+1DE6", "U+1DE7",
     "U+1DE8", "U+1DE9", "U+1DEA", "U+1DEB", "U+1DEC", "U+1DED", "U+1DEE", "U+1DEF", "U+1DF0",
     "U+1DF1", "U+1DF2", "U+1DF3", "U+1DF4", "U+1DF5", "U+1DF6", "U+1DF7", "U+1DF8", "U+1DF9",
     "U+1DFA", "U+1DFB", "U+1DFC", "U+1DFD", "U+1DFE", "U+1DFF", "U+1FBD", "U+1FBF", "U+1FC0",
     "U+1FC1", "U+1FCD", "U+1FCE", "U+1FCF", "U+1FDD", "U+1FDE", "U+1FDF", "U+1FED", "U+1FEE",
     "U+1FEF", "U+1FFD", "U+1FFE", "U+200B", "U+200C", "U+200D", "U+200E", "U+200F", "U+2018",
     "U+2019", "U+2024", "U+2027", "U+202A", "U+202B", "U+202C", "U+202D", "U+202E", "U+2060",
     "U+2061", "U+2062", "U+2063", "U+2064", "U+2066", "U+2067", "U+2068", "U+2069", "U+206A",
     "U+206B", "U+206C", "U+206D", "U+206E", "U+206F", "U+2071", "U+207F", "U+2090", "U+2091",
     "U+2092", "U+2093", "U+2094", "U+2095", "U+2096", "U+2097", "U+2098", "U+2099", "U+209A",
     "U+209B", "U+209C", "U+20D0", "U+20D1", "U+20D2", "U+20D3", "U+20D4", "U+20D5", "U+20D6",
     "U+20D7", "U+20D8", "U+20D9", "U+20DA", "U+20DB", "U+20DC", "U+20DD", "U+20DE", "U+20DF",
     "U+20E0", "U+20E1", "U+20E2", "U+20E3", "U+20E4", "U+20E5", "U+20E6", "U+20E7", "U+20E8",
     "U+20E9", "U+20EA", "U+20EB", "U+20EC", "U+20ED", "U+20EE", "U+20EF", "U+20F0", "U+2C7C",
     "U+2C7D", "U+2CEF", "U+2CF0", "U+2CF1", "U+2D6F", "U+2D7F", "U+2DE0", "U+2DE1", "U+2DE2",
     "U+2DE3", "U+2DE4", "U+2DE5", "U+2DE6", "U+2DE7", "U+2DE8", "U+2DE9", "U+2DEA", "U+2DEB",
     "U+2DEC", "U+2DED", "U+2DEE", "U+2DEF", "U+2DF0", "U+2DF1", "U+2DF2", "U+2DF3", "U+2DF4",
     "U+2DF5", "U+2DF6", "U+2DF7", "U+2DF8", "U+2DF9", "U+2DFA", "U+2DFB", "U+2DFC", "U+2DFD",
     "U+2DFE", "U+2DFF", "U+2E2F", "U+3005", "U+302A", "U+302B", "U+302C", "U+302D", "U+3031",
     "U+3032", "U+3033", "U+3034", "U+3035", "U+303B", "U+3099", "U+309A", "U+309B", "U+309C",
     "U+309D", "U+309E", "U+30FC", "U+30FD", "U+30FE", "U+A015", "U+A4F8", "U+A4F9", "U+A4FA",
     "U+A4FB", "U+A4FC", "U+A4FD", "U+A60C", "U+A66F", "U+A670", "U+A671", "U+A672", "U+A674",
     "U+A675", "U+A676", "U+A677", "U+A678", "U+A679", "U+A67A", "U+A67B", "U+A67C", "U+A67D",
     "U+A67F", "U+A69C", "U+A69D", "U+A69E", "U+A69F", "U+A6F0", "U+A6F1", "U+A700", "U+A701",
     "U+A702", "U+A703", "U+A704", "U+A705", "U+A706", "U+A707", "U+A708", "U+A709", "U+A70A",
     "U+A70B", "U+A70C", "U+A70D", "U+A70E", "U+A70F", "U+A710", "U+A711", "U+A712", "U+A713",
     "U+A714", "U+A715", "U+A716", "U+A717", "U+A718", "U+A719", "U+A71A", "U+A71B", "U+A71C",
     "U+A71D", "U+A71E", "U+A71F", "U+A720", "U+A721", "U+A770", "U+A788", "U+A789", "U+A78A",
     "U+A7F1", "U+A7F2", "U+A7F3", "U+A7F4", "U+A7F8", "U+A7F9", "U+A802", "U+A806", "U+A80B",
     "U+A825", "U+A826", "U+A82C", "U+A8C4", "U+A8C5", "U+A8E0", "U+A8E1", "U+A8E2", "U+A8E3",
     "U+A8E4", "U+A8E5", "U+A8E6", "U+A8E7", "U+A8E8", "U+A8E9", "U+A8EA", "U+A8EB", "U+A8EC",
     "U+A8ED", "U+A8EE", "U+A8EF", "U+A8F0", "U+A8F1", "U+A8FF", "U+A926", "U+A927", "U+A928",
     "U+A929", "U+A92A", "U+A92B", "U+A92C", "U+A92D", "U+A947", "U+A948", "U+A949", "U+A94A",
     "U+A94B", "U+A94C", "U+A94D", "U+A94E", "U+A94F", "U+A950", "U+A951", "U+A980", "U+A981",
     "U+A982", "U+A9B3", "U+A9B6", "U+A9B7", "U+A9B8", "U+A9B9", "U+A9BC", "U+A9BD", "U+A9CF",
     "U+A9E5", "U+A9E6", "U+AA29", "U+AA2A", "U+AA2B", "U+AA2C", "U+AA2D", "U+AA2E", "U+AA31",
     "U+AA32", "U+AA35", "U+AA36", "U+AA43", "U+AA4C", "U+AA70", "U+AA7C", "U+AAB0", "U+AAB2",
     "U+AAB3", "U+AAB4", "U+AAB7", "U+AAB8", "U+AABE", "U+AABF", "U+AAC1", "U+AADD", "U+AAEC",
     "U+AAED", "U+AAF3", "U+AAF4", "U+AAF6", "U+AB5B", "U+AB5C", "U+AB5D", "U+AB5E", "U+AB5F",
     "U+AB69", "U+AB6A", "U+AB6B", "U+ABE5", "U+ABE8", "U+ABED", "U+FB1E", "U+FBB2", "U+FBB3",
     "U+FBB4", "U+FBB5", "U+FBB6", "U+FBB7", "U+FBB8", "U+FBB9", "U+FBBA", "U+FBBB", "U+FBBC",
     "U+FBBD", "U+FBBE", "U+FBBF", "U+FBC0", "U+FBC1", "U+FBC2", "U+FE00", "U+FE01", "U+FE02",
     "U+FE03", "U+FE04", "U+FE05", "U+FE06", "U+FE07", "U+FE08", "U+FE09", "U+FE0A", "U+FE0B",
     "U+FE0C", "U+FE0D", "U+FE0E", "U+FE0F", "U+FE13", "U+FE20", "U+FE21", "U+FE22", "U+FE23",
     "U+FE24", "U+FE25", "U+FE26", "U+FE27", "U+FE28", "U+FE29", "U+FE2A", "U+FE2B", "U+FE2C",
     "U+FE2D", "U+FE2E", "U+FE2F", "U+FE52", "U+FE55", "U+FEFF", "U+FF07", "U+FF0E", "U+FF1A",
     "U+FF3E", "U+FF40", "U+FF70", "U+FF9E", "U+FF9F", "U+FFE3", "U+FFF9", "U+FFFA", "U+FFFB"}

\* The code units up to U+FFFF with the Unicode property Cased and without
\* Case_Ignorable.
CasedUnits ==
    {"A", "B", "C", "D", "E", "F", "G", "H", "I", "J", "K", "L", "M", "N", "O", "P", "Q", "R",
     "S", "T", "U", "V", "W", "X", "Y", "Z", "a", "b", "c", "d", "e", "f", "g", "h", "i", "j",
     "k", "l", "m", "n", "o", "p", "q", "r", "s", "t", "u", "v", "w", "x", "y", "z", "U+00AA",
     "U+00B5", "U+00BA", "U+00C0", "U+00C1", "U+00C2", "U+00C3", "U+00C4", "U+00C5", "U+00C6",
     "U+00C7", "U+00C8", "U+00C9", "U+00CA", "U+00CB", "U+00CC", "U+00CD", "U+00CE", "U+00CF",
     "U+00D0", "U+00D1", "U+00D2", "U+00D3", "U+00D4", "U+00D5", "U+00D6", "U+00D8", "U+00D9",
     "U+00DA", "U+00DB", "U+00DC", "U+00DD", "U+00DE", "U+00DF", "U+00E0", "U+00E1", "U+00E2",
     "U+00E3", "U+00E4", "U+00E5", "U+00E6", "U+00E7", "U+00E8", "U+00E9", "U+00EA", "U+00EB",
     "U+00EC", "U+00ED", "U+00EE", "U+00EF", "U+00F0", "U+00F1", "U+00F2", "U+00F3", "U+00F4",
     "U+00F5", "U+00F6", "U+00F8", "U+00F9", "U+00FA", "U+00FB", "U+00FC", "U+00FD", "U+00FE",
     "U+00FF", "U+0100", "U+0101", "U+0102", "U+0103", "U+0104", "U+0105", "U+0106", "U+0107",
     "U+0108", "U+0109", "U+010A", "U+010B", "U+010C", "U+010D", "U+010E", "U+010F", "U+0110",
     "U+0111", "U+0112", "U+0113", "U+0114", "U+0115", "U+0116", "U+0117", "U+0118", "U+0119",
     "U+011A", "U+011B", "U+011C", "U+011D", "U+011E", "U+011F", "U+0120", "U+0121", "U+0122",
     "U+0123", "U+0124", "U+0125", "U+0126", "U+0127", "U+0128", "U+0129", "U+012A", "U+012B",
     "U+012C", "U+012D", "U+012E", "U+012F", "U+0130", "U+0131", "U+0132", "U+0133", "U+0134",
     "U+0135", "U+0136", "U+0137", "U+0138", "U+0139", "U+013A", "U+013B", "U+013C", "U+013D",
     "U+013E", "U+013F", "U+0140", "U+0141", "U+0142", "U+0143", "U+0144", "U+0145", "U+0146",
     "U+0147", "U+0148", "U+0149", "U+014A", "U+014B", "U+014C", "U+014D", "U+014E", "U+014F",
     "U+0150", "U+0151", "U+0152", "U+0153", "U+0154", "U+0155", "U+0156", "U+0157", "U+0158",
     "U+0159", "U+015A", "U+015B", "U+015C", "U+015D", "U+015E", "U+015F", "U+0160", "U+0161",
     "U+0162", "U+0163", "U+0164", "U+0165", "U+0166", "U+0167", "U+0168", "U+0169", "U+016A",
     "U+016B", "U+016C", "U+016D", "U+016E", "U+016F", "U+0170", "U+0171", "U+0172", "U+0173",
     "U+0174", "U+0175", "U+0176", "U+0177", "U+0178", "U+0179", "U+017A", "U+017B", "U+017C",
     "U+017D", "U+017E", "U+017F", "U+0180", "U+0181", "U+0182", "U+0183", "U+0184", "U+0185",
     "U+0186", "U+0187", "U+0188", "U+0189", "U+018A", "U+018B", "U+018C", "U+018D", "U+018E",
     "U+018F", "U+0190", "U+0191", "U+0192", "U+0193", "U+0194", "U+0195", "U+0196", "U+0197",
     "U+0198", "U+0199", "U+019A", "U+019B", "U+019C", "U+019D", "U+019E", "U+019F", "U+01A0",
     "U+01A1", "U+01A2", "U+01A3", "U+01A4", "U+01A5", "U+01A6", "U+01A7", "U+01A8", "U+01A9",
     "U+01AA", "U+01AB", "U+01AC", "U+01AD", "U+01AE", "U+01AF", "U+01B0", "U+01B1", "U+01B2",
     "U+01B3", "U+01B4", "U+01B5", "U+01B6", "U+01B7", "U+01B8", "U+01B9", "U+01BA", "U+01BC",
     "U+01BD", "U+01BE", "U+01BF", "U+01C4", "U+01C5", "U+01C6", "U+01C7", "U+01C8", "U+01C9",
     "U+01CA", "U+01CB", "U+01CC", "U+01CD", "U+01CE", "U+01CF", "U+01D0", "U+01D1", "U+01D2",
     "U+01D3", "U+01D4", "U+01D5", "U+01D6", "U+01D7", "U+01D8", "U+01D9", "U+01DA", "U+01DB",
     "U+01DC", "U+01DD", "U+01DE", "U+01DF", "U+01E0", "U+01E1", "U+01E2", "U+01E3", "U+01E4",
     "U+01E5", "U+01E6", "U+01E7", "U+01E8", "U+01E9", "U+01EA", "U+01EB", "U+01EC", "U+01ED",
     "U+01EE", "U+01EF", "U+01F0", "U+01F1", "U+01F2", "U+01F3", "U+01F4", "U+01F5", "U+01F6",
     "U+01F7", "U+01F8", "U+01F9", "U+01FA", "U+01FB", "U+01FC", "U+01FD", "U+01FE", "U+01FF",
     "U+0200", "U+0201", "U+0202", "U+0203", "U+0204", "U+0205", "U+0206", "U+0207", "U+0208",
     "U+0209", "U+020A", "U+020B", "U+020C", "U+020D", "U+020E", "U+020F", "U+0210", "U+0211",
     "U+0212", "U+0213", "U+0214", "U+0215", "U+0216", "U+0217", "U+0218", "U+0219", "U+021A",
     "U+021B", "U+021C", "U+021D", "U+021E", "U+021F", "U+0220", "U+0221", "U+0222", "U+0223",
     "U+0224", "U+0225", "U+0226", "U+0227", "U+0228", "U+0229", "U+022A", "U+022B", "U+022C",
     "U+022D", "U+022E", "U+022F", "U+0230", "U+0231", "U+0232", "U+0233", "U+0234", "U+0235",
     "U+0236", "U+0237", "U+0238", "U+0239", "U+023A", "U+023B", "U+023C", "U+023D", "U+023E",
     "U+023F", "U+0240", "U+0241", "U+0242", "U+0243", "U+0244", "U+0245", "U+0246", "U+0247",
     "U+0248", "U+0249", "U+024A", "U+024B", "U+024C", "U+024D", "U+024E", "U+024F", "U+0250",
     "U+0251", "U+0252", "U+0253", "U+0254", "U+0255", "U+0256", "U+0257", "U+0258", "U+0259",
     "U+025A", "U+025B", "U+025C", "U+025D", "U+025E", "U+025F", "U+0260", "U+0261", "U+0262",
     "U+0263", "U+0264", "U+0265", "U+0266", "U+0267", "U+0268", "U+0269", "U+026A", "U+026B",
     "U+026C", "U+026D", "U+026E", "U+026F", "U+0270", "U+0271", "U+0272", "U+0273", "U+0274",
     "U+0275", "U+0276", "U+0277", "U+0278", "U+0279", "U+027A", "U+027B", "U+027C", "U+027D",
     "U+027E", "U+027F", "U+0280", "U+0281", "U+0282", "U+0283", "U+0284", "U+0285", "U+0286",
     "U+0287", "U+0288", "U+0289", "U+028A", "U+028B", "U+028C", "U+028D", "U+028E", "U+028F",
     "U+0290", "U+0291", "U+0292", "U+0293", "U+0296", "U+0297", "U+0298", "U+0299", "U+029A",
     "U+029B", "U+029C", "U+029D", "U+029E", "U+029F", "U+02A0", "U+02A1", "U+02A2", "U+02A3",
     "U+02A4", "U+02A5", "U+02A6", "U+02A7", "U+02A8", "U+02A9", "U+02AA", "U+02AB", "U+02AC",
     "U+02AD", "U+02AE", "U+02AF", "U+0370", "U+0371", "U+0372", "U+0373", "U+0376", "U+0377",
     "U+037B", "U+037C", "U+037D", "U+037F", "U+0386", "U+0388", "U+0389", "U+038A", "U+038C",
     "U+038E", "U+038F", "U+0390", "U+0391", "U+0392", "U+0393", "U+0394", "U+0395", "U+0396",
     "U+0397", "U+0398", "U+0399", "U+039A", "U+039B", "U+039C", "U+039D", "U+039E", "U+039F",
     "U+03A0", "U+03A1", "U+03A3", "U+03A4", "U+03A5", "U+03A6", "U+03A7", "U+03A8", "U+03A9",
     "U+03AA", "U+03AB", "U+03AC", "U+03AD", "U+03AE", "U+03AF", "U+03B0", "U+03B1", "U+03B2",
     "U+03B3", "U+03B4", "U+03B5", "U+03B6", "U+03B7", "U+03B8", "U+03B9", "U+03BA", "U+03BB",
     "U+03BC", "U+03BD", "U+03BE", "U+03BF", "U+03C0", "U+03C1", "U+03C2", "U+03C3", "U+03C4",
     "U+03C5", "U+03C6", "U+03C7", "U+03C8", "U+03C9", "U+03CA", "U+03CB", "U+03CC", "U+03CD",
     "U+03CE", "U+03CF", "U+03D0", "U+03D1", "U+03D2", "U+03D3", "U+03D4", "U+03D5", "U+03D6",
     "U+03D7", "U+03D8", "U+03D9", "U+03DA", "U+03DB", "U+03DC", "U+03DD", "U+03DE", "U+03DF",
     "U+03E0", "U+03E1", "U+03E2", "U+03E3", "U+03E4", "U+03E5", "U+03E6", "U+03E7", "U+03E8",
     "U+03E9", "U+03EA", "U+03EB", "U+03EC", "U+03ED", "U+03EE", "U+03EF", "U+03F0", "U+03F1",
     "U+03F2", "U+03F3", "U+03F4", "U+03F5", "U+03F7", "U+03F8", "U+03F9", "U+03FA", "U+03FB",
     "U+03FC", "U+03FD", "U+03FE", "U+03FF", "U+0400", "U+0401", "U+0402", "U+0403", "U+0404",
     "U+0405", "U+0406", "U+0407", "U+0408", "U+0409", "U+040A", "U+040B", "U+040C", "U+040D",
     "U+040E", "U+040F", "U+0410", "U+0411", "U+0412", "U+0413", "U+0414", "U+0415", "U+0416",
     "U+0417", "U+0418", "U+0419", "U+041A", "U+041B", "U+041C", "U+041D", "U+041E", "U+041F",
     "U+0420", "U+0421", "U+0422", "U+0423", "U+0424", "U+0425", "U+0426", "U+0427", "U+0428",
     "U+0429", "U+042A", "U+042B", "U+042C", "U+042D", "U+042E", "U+042F", "U+0430", "U+0431",
     "U+0432", "U+0433", "U+0434", "U+0435", "U+0436", "U+0437", "U+0438", "U+0439", "U+043A",
     "U+043B", "U+043C", "U+043D", "U+043E", "U+043F", "U+0440", "U+0441", "U+0442", "U+0443",
     "U+0444", "U+0445", "U+0446", "U+0447", "U+0448", "U+0449", "U+044A", "U+044B", "U+044C",
     "U+044D", "U+044E", "U+044F", "U+0450", "U+0451", "U+0452", "U+0453", "U+0454", "U+0455",
     "U+0456", "U+0457", "U+0458", "U+0459", "U+045A", "U+045B", "U+045C", "U+045D", "U+045E",
     "U+045F", "U+0460", "U+0461", "U+0462", "U+0463", "U+0464", "U+0465", "U+0466", "U+0467",
     "U+0468", "U+0469", "U+046A", "U+046B", "U+046C", "U+046D", "U+046E", "U+046F", "U+0470",
     "U+0471", "U+0472", "U+0473", "U+0474", "U+0475", "U+0476", "U+0477", "U+0478", "U+0479",
     "U+047A", "U+047B", "U+047C", "U+047D", "U+047E", "U+047F", "U+0480", "U+0481", "U+048A",
     "U+048B", "U+048C", "U+048D", "U+048E", "U+048F", "U+0490", "U+0491", "U+0492", "U+0493",
     "U+0494", "U+0495", "U+0496", "U+0497", "U+0498", "U+0499", "U+049A", "U+049B", "U+049C",
     "U+049D", "U+049E", "U+049F", "U+04A0", "U+04A1", "U+04A2", "U+04A3", "U+04A4", "U+04A5",
     "U+04A6", "U+04A7", "U+04A8", "U+04A9", "U+04AA", "U+04AB", "U+04AC", "U+04AD", "U+04AE",
     "U+04AF", "U+04B0", "U+04B1", "U+04B2", "U+04B3", "U+04B4", "U+04B5", "U+04B6", "U+04B7",
     "U+04B8", "U+04B9", "U+04BA", "U+04BB", "U+04BC", "U+04BD", "U+04BE", "U+04BF", "U+04C0",
     "U+04C1", "U+04C2", "U+04C3", "U+04C4", "U+04C5", "U+04C6", "U+04C7", "U+04C8", "U+04C9",
     "U+04CA", "U+04CB", "U+04CC", "U+04CD", "U+04CE", "U+04CF", "U+04D0", "U+04D1", "U+04D2",
     "U+04D3", "U+04D4", "U+04D5", "U+04D6", "U+04D7", "U+04D8", "U+04D9", "U+04DA", "U+04DB",
     "U+04DC", "U+04DD", "U+04DE", "U+04DF", "U+04E0", "U+04E1", "U+04E2", "U+04E3", "U+04E4",
     "U+04E5", "U+04E6", "U+04E7", "U+04E8", "U+04E9", "U+04EA", "U+04EB", "U+04EC", "U+04ED",
     "U+04EE", "U+04EF", "U+04F0", "U+04F1", "U+04F2", "U+04F3", "U+04F4", "U+04F5", "U+04F6",
     "U+04F7", "U+04F8", "U+04F9", "U+04FA", "U+04FB", "U+04FC", "U+04FD", "U+04FE", "U+04FF",
     "U+0500", "U+0501", "U+0502", "U+0503", "U+0504", "U+0505", "U+0506", "U+0507", "U+0508",
     "U+0509", "U+050A", "U+050B", "U+050C", "U+050D", "U+050E", "U+050F", "U+0510", "U+0511",
     "U+0512", "U+0513", "U+0514", "U+0515", "U+0516", "U+0517", "U+0518", "U+0519", "U+051A",
     "U+051B", "U+051C", "U+051D", "U+051E", "U+051F", "U+0520", "U+0521", "U+0522", "U+0523",
     "U+0524", "U+0525", "U+0526", "U+0527", "U+0528", "U+0529", "U+052A", "U+052B", "U+052C",
     "U+052D", "U+052E", "U+052F", "U+0531", "U+0532", "U+0533", "U+0534", "U+0535", "U+0536",
     "U+0537", "U+0538", "U+0539", "U+053A", "U+053B", "U+053C", "U+053D", "U+053E", "U+053F",
     "U+0540", "U+0541", "U+0542", "U+0543", "U+0544", "U+0545", "U+0546", "U+0547", "U+0548",
     "U+0549", "U+054A", "U+054B", "U+054C", "U+054D", "U+054E", "U+054F", "U+0550", "U+0551",
     "U+0552", "U+0553", "U+0554", "U+0555", "U+0556", "U+0560", "U+0561", "U+0562", "U+0563",
     "U+0564", "U+0565", "U+0566", "U+0567", "U+0568", "U+0569", "U+056A", "U+056B", "U+056C",
     "U+056D", "U+056E", "U+056F", "U+0570", "U+0571", "U+0572", "U+0573", "U+0574", "U+0575",
     "U+0576", "U+0577", "U+0578", "U+0579", "U+057A", "U+057B", "U+057C", "U+057D", "U+057E",
     "U+057F", "U+0580", "U+0581", "U+0582", "U+0583", "U+0584", "U+0585", "U+0586", "U+0587",
     "U+0588", "U+10A0", "U+10A1", "U+10A2", "U+10A3", "U+10A4", "U+10A5", "U+10A6", "U+10A7",
     "U+10A8", "U+10A9", "U+10AA", "U+10AB", "U+10AC", "U+10AD", "U+10AE", "U+10AF", "U+10B0",
     "U+10B1", "U+10B2", "U+10B3", "U+10B4", "U+10B5", "U+10B6", "U+10B7", "U+10B8", "U+10B9",
     "U+10BA", "U+10BB", "U+10BC", "U+10BD", "U+10BE", "U+10BF", "U+10C0", "U+10C1", "U+10C2",
     "U+10C3", "U+10C4", "U+10C5", "U+10C7", "U+10CD", "U+10D0", "U+10D1", "U+10D2", "U+10D3",
     "U+10D4", "U+10D5", "U+10D6", "U+10D7", "U+10D8", "U+10D9", "U+10DA", "U+10DB", "U+10DC",
     "U+10DD", "U+10DE", "U+10DF", "U+10E0", "U+10E1", "U+10E2", "U+10E3", "U+10E4", "U+10E5",
     "U+10E6", "U+10E7", "U+10E8", "U+10E9", "U+10EA", "U+10EB", "U+10EC", "U+10ED", "U+10EE",
     "U+10EF", "U+10F0", "U+10F1", "U+10F2", "U+10F3", "U+10F4", "U+10F5", "U+10F6", "U+10F7",
     "U+10F8", "U+10F9", "U+10FA", "U+10FD", "U+10FE", "U+10FF", "U+13A0", "U+13A1", "U+13A2",
     "U+13A3", "U+13A4", "U+13A5", "U+13A6", "U+13A7", "U+13A8", "U+13A9", "U+13AA", "U+13AB",
     "U+13AC", "U+13AD", "U+13AE", "U+13AF", "U+13B0", "U+13B1", "U+13B2", "U+13B3", "U+13B4",
     "U+13B5", "U+13B6", "U+13B7", "U+13B8", "U+13B9", "U+13BA", "U+13BB", "U+13BC", "U+13BD",
     "U+13BE", "U+13BF", "U+13C0", "U+13C1", "U+13C2", "U+13C3", "U+13C4", "U+13C5", "U+13C6",
     "U+13C7", "U+13C8", "U+13C9", "U+13CA", "U+13CB", "U+13CC", "U+13CD", "U+13CE", "U+13CF",
     "U+13D0", "U+13D1", "U+13D2", "U+13D3", "U+13D4", "U+13D5", "U+13D6", "U+13D7", "U+13D8",
     "U+13D9", "U+13DA", "U+13DB", "U+13DC", "U+13DD", "U+13DE", "U+13DF", "U+13E0", "U+13E1",
     "U+13E2", "U+13E3", "U+13E4", "U+13E5", "U+13E6", "U+13E7", "U+13E8", "U+13E9", "U+13EA",
     "U+13EB", "U+13EC", "U+13ED", "U+13EE", "U+13EF", "U+13F0", "U+13F1", "U+13F2", "U+13F3",
     "U+13F4", "U+13F5", "U+13F8", "U+13F9", "U+13FA", "U+13FB", "U+13FC", "U+13FD", "U+1C80",
     "U+1C81", "U+1C82", "U+1C83", "U+1C84", "U+1C85", "U+1C86", "U+1C87", "U+1C88", "U+1C89",
     "U+1C8A", "U+1C90", "U+1C91", "U+1C92", "U+1C93", "U+1C94", "U+1C95", "U+1C96", "U+1C97",
     "U+1C98", "U+1C99", "U+1C9A", "U+1C9B", "U+1C9C", "U+1C9D", "U+1C9E", "U+1C9F", "U+1CA0",
     "U+1CA1", "U+1CA2", "U+1CA3", "U+1CA4", "U+1CA5", "U+1CA6", "U+1CA7", "U+1CA8", "U+1CA9",
     "U+1CAA", "U+1CAB", "U+1CAC", "U+1CAD", "U+1CAE", "U+1CAF", "U+1CB0", "U+1CB1", "U+1CB2",
     "U+1CB3", "U+1CB4", "U+1CB5", "U+1CB6", "U+1CB7", "U+1CB8", "U+1CB9", "U+1CBA", "U+1CBD",
     "U+1CBE", "U+1CBF", "U+1D00", "U+1D01", "U+1D02", "U+1D03", "U+1D04", "U+1D05", "U+1D06",
     "U+1D07", "U+1D08", "U+1D09", "U+1D0A", "U+1D0B", "U+1D0C", "U+1D0D", "U+1D0E", "U+1D0F",
     "U+1D10", "U+1D11", "U+1D12", "U+1D13", "U+1D14", "U+1D15", "U+1D16", "U+1D17", "U+1D18",
     "U+1D19", "U+1D1A", "U+1D1B", "U+1D1C", "U+1D1D", "U+1D1E", "U+1D1F", "U+1D20", "U+1D21",
     "U+1D22", "U+1D23", "U+1D24", "U+1D25", "U+1D26", "U+1D27", "U+1D28", "U+1D29", "U+1D2A",
     "U+1D2B", "U+1D6B", "U+1D6C", "U+1D6D", "U+1D6E", "U+1D6F", "U+1D70", "U+1D71", "U+1D72",
     "U+1D73", "U+1D74", "U+1D75", "U+1D76", "U+1D77", "U+1D79", "U+1D7A", "U+1D7B", "U+1D7C",
     "U+1D7D", "U+1D7E", "U+1D7F", "U+1D80", "U+1D81", "U+1D82", "U+1D83", "U+1D84", "U+1D85",
     "U+1D86", "U+1D87", "U+1D88", "U+1D89", "U+1D8A", "U+1D8B", "U+1D8C", "U+1D8D", "U+1D8E",
     "U+1D8F", "U+1D90", "U+1D91", "U+1D92", "U+1D93", "U+1D94", "U+1D95", "U+1D96", "U+1D97",
     "U+1D98", "U+1D99", "U+1D9A", "U+1E00", "U+1E01", "U+1E02", "U+1E03", "U+1E04", "U+1E05",
     "U+1E06", "U+1E07", "U+1E08", "U+1E09", "U+1E0A", "U+1E0B", "U+1E0C", "U+1E0D", "U+1E0E",
     "U+1E0F", "U+1E10", "U+1E11", "U+1E12", "U+1E13", "U+1E14", "U+1E15", "U+1E16", "U+1E17",
     "U+1E18", "U+1E19", "U+1E1A", "U+1E1B", "U+1E1C", "U+1E1D", "U+1E1E", "U+1E1F", "U+1E20",
     "U+1E21", "U+1E22", "U+1E23", "U+1E24", "U+1E25", "U+1E26", "U+1E27", "U+1E28", "U+1E29",
     "U+1E2A", "U+1E2B", "U+1E2C", "U+1E2D", "U+1E2E", "U+1E2F", "U+1E30", "U+1E31", "U+1E32",
     "U+1E33", "U+1E34", "U+1E35", "U+1E36", "U+1E37", "U+1E38", "U+1E39", "U+1E3A", "U+1E3B",
     "U+1E3C", "U+1E3D", "U+1E3E", "U+1E3F", "U+1E40", "U+1E41", "U+1E42", "U+1E43", "U+1E44",
     "U+1E45", "U+1E46", "U+1E47", "U+1E48", "U+1E49", "U+1E4A", "U+1E4B", "U+1E4C", "U+1E4D",
     "U+1E4E", "U+1E4F", "U+1E50", "U+1E51", "U+1E52", "U+1E53", "U+1E54", "U+1E55", "U+1E56",
     "U+1E57", "U+1E58", "U+1E59", "U+1E5A", "U+1E5B", "U+1E5C", "U+1E5D", "U+1E5E", "U+1E5F",
     "U+1E60", "U+1E61", "U+1E62", "U+1E63", "U+1E64", "U+1E65", "U+1E66", "U+1E67", "U+1E68",
     "U+1E69", "U+1E6A", "U+1E6B", "U+1E6C", "U+1E6D", "U+1E6E", "U+1E6F", "U+1E70", "U+1E71",
     "U+1E72", "U+1E73", "U+1E74", "U+1E75", "U+1E76", "U+1E77", "U+1E78", "U+1E79", "U+1E7A",
     "U+1E7B", "U+1E7C", "U+1E7D", "U+1E7E", "U+1E7F", "U+1E80", "U+1E81", "U+1E82", "U+1E83",
     "U+1E84", "U+1E85", "U+1E86", "U+1E87", "U+1E88", "U+1E89", "U+1E8A", "U+1E8B", "U+1E8C",
     "U+1E8D", "U+1E8E", "U+1E8F", "U+1E90", "U+1E91", "U+1E92", "U+1E93", "U+1E94", "U+1E95",
     "U+1E96", "U+1E97", "U+1E98", "U+1E99", "U+1E9A", "U+1E9B", "U+1E9C", "U+1E9D", "U+1E9E",
     "U+1E9F", "U+1EA0", "U+1EA1", "U+1EA2", "U+1EA3", "U+1EA4", "U+1EA5", "U+1EA6", "U+1EA7",
     "U+1EA8", "U+1EA9", "U+1EAA", "U+1EAB", "U+1EAC", "U+1EAD", "U+1EAE", "U+1EAF", "U+1EB0",
     "U+1EB1", "U+1EB2", "U+1EB3", "U+1EB4", "U+1EB5", "U+1EB6", "U+1EB7", "U+1EB8", "U+1EB9",
     "U+1EBA", "U+1EBB", "U+1EBC", "U+1EBD", "U+1EBE", "U+1EBF", "U+1EC0", "U+1EC1", "U+1EC2",
     "U+1EC3", "U+1EC4", "U+1EC5", "U+1EC6", "U+1EC7", "U+1EC8", "U+1EC9", "U+1ECA", "U+1ECB",
     "U+1ECC", "U+1ECD", "U+1ECE", "U+1ECF", "U+1ED0", "U+1ED1", "U+1ED2", "U+1ED3", "U+1ED4",
     "U+1ED5", "U+1ED6", "U+1ED7", "U+1ED8", "U+1ED9", "U+1EDA", "U+1EDB", "U+1EDC", "U+1EDD",
     "U+1EDE", "U+1EDF", "U+1EE0", "U+1EE1", "U+1EE2", "U+1EE3", "U+1EE4", "U+1EE5", "U+1EE6",
     "U+1EE7", "U+1EE8", "U+1EE9", "U+1EEA", "U+1EEB", "U+1EEC", "U+1EED", "U+1EEE", "U+1EEF",
     "U+1EF0", "U+1EF1", "U+1EF2", "U+1EF3", "U+1EF4", "U+1EF5", "U+1EF6", "U+1EF7", "U+1EF8",
     "U+1EF9", "U+1EFA", "U+1EFB", "U+1EFC", "U+1EFD", "U+1EFE", "U+1EFF", "U+1F00", "U+1F01",
     "U+1F02", "U+1F03", "U+1F04", "U+1F05", "U+1F06", "U+1F07", "U+1F08", "U+1F09", "U+1F0A",
     "U+1F0B", "U+1F0C", "U+1F0D", "U+1F0E", "U+1F0F", "U+1F10", "U+1F11", "U+1F12", "U+1F13",
     "U+1F14", "U+1F15", "U+1F18", "U+1F19", "U+1F1A", "U+1F1B", "U+1F1C", "U+1F1D", "U+1F20",
     "U+1F21", "U+1F22", "U+1F23", "U+1F24", "U+1F25", "U+1F26", "U+1F27", "U+1F28", "U+1F29",
     "U+1F2A", "U+1F2B", "U+1F2C", "U+1F2D", "U+1F2E", "U+1F2F", "U+1F30", "U+1F31", "U+1F32",
     "U+1F33", "U+1F34", "U+1F35", "U+1F36", "U+1F37", "U+1F38", "U+1F39", "U+1F3A", "U+1F3B",
     "U+1F3C", "U+1F3D", "U+1F3E", "U+1F3F", "U+1F40", "U+1F41", "U+1F42", "U+1F43", "U+1F44",
     "U+1F45", "U+1F48", "U+1F49", "U+1F4A", "U+1F4B", "U+1F4C", "U+1F4D", "U+1F50", "U+1F51",
     "U+1F52", "U+1F53", "U+1F54", "U+1F55", "U+1F56", "U+1F57", "U+1F59", "U+1F5B", "U+1F5D",
     "U+1F5F", "U+1F60", "U+1F61", "U+1F62", "U+1F63", "U+1F64", "U+1F65", "U+1F66", "U+1F67",
     "U+1F68", "U+1F69", "U+1F6A", "U+1F6B", "U+1F6C", "U+1F6D", "U+1F6E", "U+1F6F", "U+1F70",
     "U+1F71", "U+1F72", "U+1F73", "U+1F74", "U+1F75", "U+1F76", "U+1F77", "U+1F78", "U+1F79",
     "U+1F7A", "U+1F7B", "U+1F7C", "U+1F7D", "U+1F80", "U+1F81", "U+1F82", "U+1F83", "U+1F84",
     "U+1F85", "U+1F86", "U+1F87", "U+1F88", "U+1F89", "U+1F8A", "U+1F8B", "U+1F8C", "U+1F8D",
     "U+1F8E", "U+1F8F", "U+1F90", "U+1F91", "U+1F92", "U+1F93", "U+1F94", "U+1F95", "U+1F96",
     "U+1F97", "U+1F98", "U+1F99", "U+1F9A", "U+1F9B", "U+1F9C", "U+1F9D", "U+1F9E", "U+1F9F",
     "U+1FA0", "U+1FA1", "U+1FA2", "U+1FA3", "U+1FA4", "U+1FA5", "U+1FA6", "U+1FA7", "U+1FA8",
     "U+1FA9", "U+1FAA", "U+1FAB", "U+1FAC", "U+1FAD", "U+1FAE", "U+1FAF", "U+1FB0", "U+1FB1",
     "U+1FB2", "U+1FB3", "U+1FB4", "U+1FB6", "U+1FB7", "U+1FB8", "U+1FB9", "U+1FBA", "U+1FBB",
     "U+1FBC", "U+1FBE", "U+1FC2", "U+1FC3", "U+1FC4", "U+1FC6", "U+1FC7", "U+1FC8", "U+1FC9",
     "U+1FCA", "U+1FCB", "U+1FCC", "U+1FD0", "U+1FD1", "U+1FD2", "U+1FD3", "U+1FD6", "U+1FD7",
     "U+1FD8", "U+1FD9", "U+1FDA", "U+1FDB", "U+1FE0", "U+1FE1", "U+1FE2", "U+1FE3", "U+1FE4",
     "U+1FE5", "U+1FE6", "U+1FE7", "U+1FE8", "U+1FE9", "U+1FEA", "U+1FEB", "U+1FEC", "U+1FF2",
     "U+1FF3", "U+1FF4", "U+1FF6", "U+1FF7", "U+1FF8", "U+1FF9", "U+1FFA", "U+1FFB", "U+1FFC",
     "U+2102", "U+2107", "U+210A", "U+210B", "U+210C", "U+210D", "U+210E", "U+210F", "U+2110",
     "U+2111", "U+2112", "U+2113", "U+2115", "U+2119", "U+211A", "U+211B", "U+211C", "U+211D",
     "U+2124", "U+2126", "U+2128", "U+212A", "U+212B", "U+212C", "U+212D", "U+212F", "U+2130",
     "U+2131", "U+2132", "U+2133", "U+2134", "U+2139", "U+213C", "U+213D", "U+213E", "U+213F",
     "U+2145", "U+2146", "U+2147", "U+2148", "U+2149", "U+214E", "U+2160", "U+2161", "U+2162",
     "U+2163", "U+2164", "U+2165", "U+2166", "U+2167", "U+2168", "U+2169", "U+216A", "U+216B",
     "U+216C", "U+216D", "U+216E", "U+216F", "U+2170", "U+2171", "U+2172", "U+2173", "U+2174",
     "U+2175", "U+2176", "U+2177", "U+2178", "U+2179", "U+217A", "U+217B", "U+217C", "U+217D",
     "U+217E", "U+217F", "U+2183", "U+2184", "U+24B6", "U+24B7", "U+24B8", "U+24B9", "U+24BA",
     "U+24BB", "U+24BC", "U+24BD", "U+24BE", "U+24BF", "U+24C0", "U+24C1", "U+24C2", "U+24C3",
     "U+24C4", "U+24C5", "U+24C6", "U+24C7", "U+24C8", "U+24C9", "U+24CA", "U+24CB", "U+24CC",
     "U+24CD", "U+24CE", "U+24CF", "U+24D0", "U+24D1", "U+24D2", "U+24D3", "U+24D4", "U+24D5",
     "U+24D6", "U+24D7", "U+24D8", "U+24D9", "U+24DA", "U+24DB", "U+24DC", "U+24DD", "U+24DE",
     "U+24DF", "U+24E0", "U+24E1", "U+24E2", "U+24E3", "U+24E4", "U+24E5", "U+24E6", "U+24E7",
     "U+24E8", "U+24E9", "U+2C00", "U+2C01", "U+2C02", "U+2C03", "U+2C04", "U+2C05", "U+2C06",
     "U+2C07", "U+2C08", "U+2C09", "U+2C0A", "U+2C0B", "U+2C0C", "U+2C0D", "U+2C0E", "U+2C0F",
     "U+2C10", "U+2C11", "U+2C12", "U+2C13", "U+2C14", "U+2C15", "U+2C16", "U+2C17", "U+2C18",
     "U+2C19", "U+2C1A", "U+2C1B", "U+2C1C", "U+2C1D", "U+2C1E", "U+2C1F", "U+2C20", "U+2C21",
     "U+2C22", "U+2C23", "U+2C24", "U+2C25", "U+2C26", "U+2C27", "U+2C28", "U+2C29", "U+2C2A",
     "U+2C2B", "U+2C2C", "U+2C2D", "U+2C2E", "U+2C2F", "U+2C30", "U+2C31", "U+2C32", "U+2C33",
     "U+2C34", "U+2C35", "U+2C36", "U+2C37", "U+2C38", "U+2C39", "U+2C3A", "U+2C3B", "U+2C3C",
     "U+2C3D", "U+2C3E", "U+2C3F", "U+2C40", "U+2C41", "U+2C42", "U+2C43", "U+2C44", "U+2C45",
     "U+2C46", "U+2C47", "U+2C48", "U+2C49", "U+2C4A", "U+2C4B", "U+2C4C", "U+2C4D", "U+2C4E",
     "U+2C4F", "U+2C50", "U+2C51", "U+2C52", "U+2C53", "U+2C54", "U+2C55", "U+2C56", "U+2C57",
     "U+2C58", "U+2C59", "U+2C5A", "U+2C5B", "U+2C5C", "U+2C5D", "U+2C5E", "U+2C5F", "U+2C60",
     "U+2C61", "U+2C62", "U+2C63", "U+2C64", "U+2C65", "U+2C66", "U+2C67", "U+2C68", "U+2C69",
     "U+2C6A", "U+2C6B", "U+2C6C", "U+2C6D", "U+2C6E", "U+2C6F", "U+2C70", "U+2C71", "U+2C72",
     "U+2C73", "U+2C74", "U+2C75", "U+2C76", "U+2C77", "U+2C78", "U+2C79", "U+2C7A", "U+2C7B",
     "U+2C7E", "U+2C7F", "U+2C80", "U+2C81", "U+2C82", "U+2C83", "U+2C84", "U+2C85", "U+2C86",
     "U+2C87", "U+2C88", "U+2C89", "U+2C8A", "U+2C8B", "U+2C8C", "U+2C8D", "U+2C8E", "U+2C8F",
     "U+2C90", "U+2C91", "U+2C92", "U+2C93", "U+2C94", "U+2C95", "U+2C96", "U+2C97", "U+2C98",
     "U+2C99", "U+2C9A", "U+2C9B", "U+2C9C", "U+2C9D", "U+2C9E", "U+2C9F", "U+2CA0", "U+2CA1",
     "U+2CA2", "U+2CA3", "U+2CA4", "U+2CA5", "U+2CA6", "U+2CA7", "U+2CA8", "U+2CA9", "U+2CAA",
     "U+2CAB", "U+2CAC", "U+2CAD", "U+2CAE", "U+2CAF", "U+2CB0", "U+2CB1", "U+2CB2", "U+2CB3",
     "U+2CB4", "U+2CB5", "U+2CB6", "U+2CB7", "U+2CB8", "U+2CB9", "U+2CBA", "U+2CBB", "U+2CBC",
     "U+2CBD", "U+2CBE", "U+2CBF", "U+2CC0", "U+2CC1", "U+2CC2", "U+2CC3", "U+2CC4", "U+2CC5",
     "U+2CC6", "U+2CC7", "U+2CC8", "U+2CC9", "U+2CCA", "U+2CCB", "U+2CCC", "U+2CCD", "U+2CCE",
     "U+2CCF", "U+2CD0", "U+2CD1", "U+2CD2", "U+2CD3", "U+2CD4", "U+2CD5", "U+2CD6", "U+2CD7",
     "U+2CD8", "U+2CD9", "U+2CDA", "U+2CDB", "U+2CDC", "U+2CDD", "U+2CDE", "U+2CDF", "U+2CE0",
     "U+2CE1", "U+2CE2", "U+2CE3", "U+2CE4", "U+2CEB", "U+2CEC", "U+2CED", "U+2CEE", "U+2CF2",
     "U+2CF3", "U+2D00", "U+2D01", "U+2D02", "U+2D03", "U+2D04", "U+2D05", "U+2D06", "U+2D07",
     "U+2D08", "U+2D09", "U+2D0A", "U+2D0B", "U+2D0C", "U+2D0D", "U+2D0E", "U+2D0F", "U+2D10",
     "U+2D11", "U+2D12", "U+2D13", "U+2D14", "U+2D15", "U+2D16", "U+2D17", "U+2D18", "U+2D19",
     "U+2D1A", "U+2D1B", "U+2D1C", "U+2D1D", "U+2D1E", "U+2D1F", "U+2D20", "U+2D21", "U+2D22",
     "U+2D23", "U+2D24", "U+2D25", "U+2D27", "U+2D2D", "U+A640", "U+A641", "U+A642", "U+A643",
     "U+A644", "U+A645", "U+A646", "U+A647", "U+A648", "U+A649", "U+A64A", "U+A64B", "U+A64C",
     "U+A64D", "U+A64E", "U+A64F", "U+A650", "U+A651", "U+A652", "U+A653", "U+A654", "U+A655",
     "U+A656", "U+A657", "U+A658", "U+A659", "U+A65A", "U+A65B", "U+A65C", "U+A65D", "U+A65E",
     "U+A65F", "U+A660", "U+A661", "U+A662", "U+A663", "U+A664", "U+A665", "U+A666", "U+A667",
     "U+A668", "U+A669", "U+A66A", "U+A66B", "U+A66C", "U+A66D", "U+A680", "U+A681", "U+A682",
     "U+A683", "U+A684", "U+A685", "U+A686", "U+A687", "U+A688", "U+A689", "U+A68A", "U+A68B",
     "U+A68C", "U+A68D", "U+A68E", "U+A68F", "U+A690", "U+A691", "U+A692", "U+A693", "U+A694",
     "U+A695", "U+A696", "U+A697", "U+A698", "U+A699", "U+A69A", "U+A69B", "U+A722", "U+A723",
     "U+A724", "U+A725", "U+A726", "U+A727", "U+A728", "U+A729", "U+A72A", "U+A72B", "U+A72C",
     "U+A72D", "U+A72E", "U+A72F", "U+A730", "U+A731", "U+A732", "U+A733", "U+A734", "U+A735",
     "U+A736", "U+A737", "U+A738", "U+A739", "U+A73A", "U+A73B", "U+A73C", "U+A73D", "U+A73E",
     "U+A73F", "U+A740", "U+A741", "U+A742", "U+A743", "U+A744", "U+A745", "U+A746", "U+A747",
     "U+A748", "U+A749", "U+A74A", "U+A74B", "U+A74C", "U+A74D", "U+A74E", "U+A74F", "U+A750",
     "U+A751", "U+A752", "U+A753", "U+A754", "U+A755", "U+A756", "U+A757", "U+A758", "U+A759",
     "U+A75A", "U+A75B", "U+A75C", "U+A75D", "U+A75E", "U+A75F", "U+A760", "U+A761", "U+A762",
     "U+A763", "U+A764", "U+A765", "U+A766", "U+A767", "U+A768", "U+A769", "U+A76A", "U+A76B",
     "U+A76C", "U+A76D", "U+A76E", "U+A76F", "U+A771", "U+A772", "U+A773", "U+A774", "U+A775",
     "U+A776", "U+A777", "U+A778", "U+A779", "U+A77A", "U+A77B", "U+A77C", "U+A77D", "U+A77E",
     "U+A77F", "U+A780", "U+A781", "U+A782", "U+A783", "U+A784", "U+A785", "U+A786", "U+A787",
     "U+A78B", "U+A78C", "U+A78D", "U+A78E", "U+A790", "U+A791", "U+A792", "U+A793", "U+A794",
     "U+A795", "U+A796", "U+A797", "U+A798", "U+A799", "U+A79A", "U+A79B", "U+A79C", "U+A79D",
     "U+A79E", "U+A79F", "U+A7A0", "U+A7A1", "U+A7A2", "U+A7A3", "U+A7A4", "U+A7A5", "U+A7A6",
     "U+A7A7", "U+A7A8", "U+A7A9", "U+A7AA", "U+A7AB", "U+A7AC", "U+A7AD", "U+A7AE", "U+A7AF",
     "U+A7B0", "U+A7B1", "U+A7B2", "U+A7B3", "U+A7B4", "U+A7B5", "U+A7B6", "U+A7B7", "U+A7B8",
     "U+A7B9", "U+A7BA", "U+A7BB", "U+A7BC", "U+A7BD", "U+A7BE", "U+A7BF", "U+A7C0", "U+A7C1",
     "U+A7C2", "U+A7C3", "U+A7C4", "U+A7C5", "U+A7C6", "U+A7C7", "U+A7C8", "U+A7C9", "U+A7CA",
     "U+A7CB", "U+A7CC", "U+A7CD", "U+A7CE", "U+A7CF", "U+A7D0", "U+A7D1", "U+A7D2", "U+A7D3",
     "U+A7D4", "U+A7D5", "U+A7D6", "U+A7D7", "U+A7D8", "U+A7D9", "U+A7DA", "U+A7DB", "U+A7DC",
     "U+A7F5", "U+A7F6", "U+A7FA", "U+AB30", "U+AB31", "U+AB32", "U+AB33", "U+AB34", "U+AB35",
     "U+AB36", "U+AB37", "U+AB38", "U+AB39", "U+AB3A", "U+AB3B", "U+AB3C", "U+AB3D", "U+AB3E",
     "U+AB3F", "U+AB40", "U+AB41", "U+AB42", "U+AB43", "U+AB44", "U+AB45", "U+AB46", "U+AB47",
     "U+AB48", "U+AB49", "U+AB4A", "U+AB4B", "U+AB4C", "U+AB4D", "U+AB4E", "U+AB4F", "U+AB50",
     "U+AB51", "U+AB52", "U+AB53", "U+AB54", "U+AB55", "U+AB56", "U+AB57", "U+AB58", "U+AB59",
     "U+AB5A", "U+AB60", "U+AB61", "U+AB62", "U+AB63", "U+AB64", "U+AB65", "U+AB66", "U+AB67",
     "U+AB68", "U+AB70", "U+AB71", "U+AB72", "U+AB73", "U+AB74", "U+AB75", "U+AB76", "U+AB77",
     "U+AB78", "U+AB79", "U+AB7A", "U+AB7B", "U+AB7C", "U+AB7D", "U+AB7E", "U+AB7F", "U+AB80",
     "U+AB81", "U+AB82", "U+AB83", "U+AB84", "U+AB85", "U+AB86", "U+AB87", "U+AB88", "U+AB89",
     "U+AB8A", "U+AB8B", "U+AB8C", "U+AB8D", "U+AB8E", "U+AB8F", "U+AB90", "U+AB91", "U+AB92",
     "U+AB93", "U+AB94", "U+AB95", "U+AB96", "U+AB97", "U+AB98", "U+AB99", "U+AB9A", "U+AB9B",
     "U+AB9C", "U+AB9D", "U+AB9E", "U+AB9F", "U+ABA0", "U+ABA1", "U+ABA2", "U+ABA3", "U+ABA4",
     "U+ABA5", "U+ABA6", "U+ABA7", "U+ABA8", "U+ABA9", "U+ABAA", "U+ABAB", "U+ABAC", "U+ABAD",
     "U+ABAE", "U+ABAF", "U+ABB0", "U+ABB1", "U+ABB2", "U+ABB3", "U+ABB4", "U+ABB5", "U+ABB6",
     "U+ABB7", "U+ABB8", "U+ABB9", "U+ABBA", "U+ABBB", "U+ABBC", "U+ABBD", "U+ABBE", "U+ABBF",
     "U+FB00", "U+FB01", "U+FB02", "U+FB03", "U+FB04", "U+FB05", "U+FB06", "U+FB13", "U+FB14",
     "U+FB15", "U+FB16", "U+FB17", "U+FF21", "U+FF22", "U+FF23", "U+FF24", "U+FF25", "U+FF26",
     "U+FF27", "U+FF28", "U+FF29", "U+FF2A", "U+FF2B", "U+FF2C", "U+FF2D", "U+FF2E", "U+FF2F",
     "U+FF30", "U+FF31", "U+FF32", "U+FF33", "U+FF34", "U+FF35", "U+FF36", "U+FF37", "U+FF38",
     "U+FF39", "U+FF3A", "U+FF41", "U+FF42", "U+FF43", "U+FF44", "U+FF45", "U+FF46", "U+FF47",
     "U+FF48", "U+FF49", "U+FF4A", "U+FF4B", "U+FF4C", "U+FF4D", "U+FF4E", "U+FF4F", "U+FF50",
     "U+FF51", "U+FF52", "U+FF53", "U+FF54", "U+FF55", "U+FF56", "U+FF57", "U+FF58", "U+FF59",
     "U+FF5A"}

\* The code points above U+FFFF with the property Case_Ignorable, as pairs of
\* surrogate units.
AstralIgnorable ==
    ({"U+D800"} \X
       {"U+DDFD", "U+DEE0", "U+DF76", "U+DF77", "U+DF78", "U+DF79", "U+DF7A"})
        \cup
    ({"U+D801"} \X
       {"U+DF80", "U+DF81", "U+DF82", "U+DF83", "U+DF84", "U+DF85", "U+DF87", "U+DF88", "U+DF89",
        "U+DF8A", "U+DF8B", "U+DF8C", "U+DF8D", "U+DF8E", "U+DF8F", "U+DF90", "U+DF91", "U+DF92",
        "U+DF93", "U+DF94", "U+DF95", "U+DF96", "U+DF97", "U+DF98", "U+DF99", "U+DF9A", "U+DF9B",
        "U+DF9C", "U+DF9D", "U+DF9E", "U+DF9F", "U+DFA0", "U+DFA1", "U+DFA2", "U+DFA3", "U+DFA4",
        "U+DFA5", "U+DFA6", "U+DFA7", "U+DFA8", "U+DFA9", "U+DFAA", "U+DFAB", "U+DFAC", "U+DFAD",
        "U+DFAE", "U+DFAF", "U+DFB0", "U+DFB2", "U+DFB3", "U+DFB4", "U+DFB5", "U+DFB6", "U+DFB7",
        "U+DFB8", "U+DFB9", "U+DFBA"})
        \cup
    ({"U+D802"} \X
       {"U+DE01", "U+DE02", "U+DE03", "U+DE05", "U+DE06", "U+DE0C", "U+DE0D", "U+DE0E", "U+DE0F",
        "U+DE38", "U+DE39", "U+DE3A", "U+DE3F", "U+DEE5", "U+DEE6"})
        \cup
    ({"U+D803"} \X
       {"U+DD24", "U+DD25", "U+DD26", "U+DD27", "U+DD4E", "U+DD69", "U+DD6A", "U+DD6B", "U+DD6C",
        "U+DD6D", "U+DD6F", "U+DEAB", "U+DEAC", "U+DEC5", "U+DEFA", "U+DEFB", "U+DEFC", "U+DEFD",
        "U+DEFE", "U+DEFF", "U+DF46", "U+DF47", "U+DF48", "U+DF49", "U+DF4A", "U+DF4B", "U+DF4C",
        "U+DF4D", "U+DF4E", "U+DF4F", "U+DF50", "U+DF82", "U+DF83", "U+DF84", "U+DF85"})
        \cup
    ({"U+D804"} \X
       {"U+DC01", "U+DC38", "U+DC39", "U+DC3A", "U+DC3B", "U+DC3C", "U+DC3D", "U+DC3E", "U+DC3F",
        "U+DC40", "U+DC41", "U+DC42", "U+DC43", "U+DC44", "U+DC45", "U+DC46", "U+DC70", "U+DC73",
        "U+DC74", "U+DC7F", "U+DC80", "U+DC81", "U+DCB3", "U+DCB4", "U+DCB5", "U+DCB6", "U+DCB9",
        "U+DCBA", "U+DCBD", "U+DCC2", "U+DCCD", "U+DD00", "U+DD01", "U+DD02", "U+DD27", "U+DD28",
        "U+DD29", "U+DD2A", "U+DD2B", "U+DD2D", "U+DD2E", "U+DD2F", "U+DD30", "U+DD31", "U+DD32",
        "U+DD33", "U+DD34", "U+DD73", "U+DD80", "U+DD81", "U+DDB6", "U+DDB7", "U+DDB8", "U+DDB9",
        "U+DDBA", "U+DDBB", "U+DDBC", "U+DDBD", "U+DDBE", "U+DDC9", "U+DDCA", "U+DDCB", "U+DDCC",
        "U+DDCF", "U+DE2F", "U+DE30", "U+DE31", "U+DE34", "U+DE36", "U+DE37", "U+DE3E", "U+DE41",
        "U+DEDF", "U+DEE3", "U+DEE4", "U+DEE5", "U+DEE6", "U+DEE7", "U+DEE8", "U+DEE9", "U+DEEA",
        "U+DF00", "U+DF01", "U+DF3B", "U+DF3C", "U+DF40", "U+DF66", "U+DF67", "U+DF68", "U+DF69",
        "U+DF6A", "U+DF6B", "U+DF6C", "U+DF70", "U+DF71", "U+DF72", "U+DF73", "U+DF74", "U+DFBB",
        "U+DFBC", "U+DFBD", "U+DFBE", "U+DFBF", "U+DFC0", "U+DFCE", "U+DFD0", "U+DFD2", "U+DFE1",
        "U+DFE2"})
        \cup
    ({"U+D805"} \X
       {"U+DC38", "U+DC39", "U+DC3A", "U+DC3B", "U+DC3C", "U+DC3D", "U+DC3E", "U+DC3F", "U+DC42",
        "U+DC43", "U+DC44", "U+DC46", "U+DC5E", "U+DCB3", "U+DCB4", "U+DCB5", "U+DCB6", "U+DCB7",
        "U+DCB8", "U+DCBA", "U+DCBF", "U+DCC0", "U+DCC2", "U+DCC3", "U+DDB2", "U+DDB3", "U+DDB4",
        "U+DDB5", "U+DDBC", "U+DDBD", "U+DDBF", "U+DDC0", "U+DDDC", "U+DDDD", "U+DE33", "U+DE34",
        "U+DE35", "U+DE36", "U+DE37", "U+DE38", "U+DE39", "U+DE3A", "U+DE3D", "U+DE3F", "U+DE40",
        "U+DEAB", "U+DEAD", "U+DEB0", "U+DEB1", "U+DEB2", "U+DEB3", "U+DEB4", "U+DEB5", "U+DEB7",
        "U+DF1D", "U+DF1F", "U+DF22", "U+DF23", "U+DF24", "U+DF25", "U+DF27", "U+DF28", "U+DF29",
        "U+DF2A", "U+DF2B"})
        \cup
    ({"U+D806"} \X
       {"U+DC2F", "U+DC30", "U+DC31", "U+DC32", "U+DC33", "U+DC34", "U+DC35", "U+DC36", "U+DC37",
        "U+DC39", "U+DC3A", "U+DD3B", "U+DD3C", "U+DD3E", "U+DD43", "U+DDD4", "U+DDD5", "U+DDD6",
        "U+DDD7", "U+DDDA", "U+DDDB", "U+DDE0", "U+DE01", "U+DE02", "U+DE03", "U+DE04", "U+DE05",
        "U+DE06", "U+DE07", "U+DE08", "U+DE09", "U+DE0A", "U+DE33", "U+DE34", "U+DE35", "U+DE36",
        "U+DE37", "U+DE38", "U+DE3B", "U+DE3C", "U+DE3D", "U+DE3E", "U+DE47", "U+DE51", "U+DE52",
        "U+DE53", "U+DE54", "U+DE55", "U+DE56", "U+DE59", "U+DE5A", "U+DE5B", "U+DE8A", "U+DE8B",
        "U+DE8C", "U+DE8D", "U+DE8E", "U+DE8F", "U+DE90", "U+DE91", "U+DE92", "U+DE93", "U+DE94",
        "U+DE95", "U+DE96", "U+DE98", "U+DE99", "U+DF60", "U+DF62", "U+DF63", "U+DF64", "U+DF66"})
        \cup
    ({"U+D807"} \X
       {"U+DC30", "U+DC31", "U+DC32", "U+DC33", "U+DC34", "U+DC35", "U+DC36", "U+DC38", "U+DC39",
        "U+DC3A", "U+DC3B", "U+DC3C", "U+DC3D", "U+DC3F", "U+DC92", "U+DC93", "U+DC94", "U+DC95",
        "U+DC96", "U+DC97", "U+DC98", "U+DC99", "U+DC9A", "U+DC9B", "U+DC9C", "U+DC9D", "U+DC9E",
        "U+DC9F", "U+DCA0", "U+DCA1", "U+DCA2", "U+DCA3", "U+DCA4", "U+DCA5", "U+DCA6", "U+DCA7",
        "U+DCAA", "U+DCAB", "U+DCAC", "U+DCAD", "U+DCAE", "U+DCAF", "U+DCB0", "U+DCB2", "U+DCB3",
        "U+DCB5", "U+DCB6", "U+DD31", "U+DD32", "U+DD33", "U+DD34", "U+DD35", "U+DD36", "U+DD3A",
        "U+DD3C", "U+DD3D", "U+DD3F", "U+DD40", "U+DD41", "U+DD42", "U+DD43", "U+DD44", "U+DD45",
        "U+DD47", "U+DD90", "U+DD91", "U+DD95", "U+DD97", "U+DDD9", "U+DEF3", "U+DEF4", "U+DF00",
        "U+DF01", "U+DF36", "U+DF37", "U+DF38", "U+DF39", "U+DF3A", "U+DF40", "U+DF42", "U+DF5A"})
        \cup
    ({"U+D80D"} \X
       {"U+DC30", "U+DC31", "U+DC32", "U+DC33", "U+DC34", "U+DC35", "U+DC36", "U+DC37", "U+DC38",
        "U+DC39", "U+DC3A", "U+DC3B", "U+DC3C", "U+DC3D", "U+DC3E", "U+DC3F", "U+DC40", "U+DC47",
        "U+DC48", "U+DC49", "U+DC4A", "U+DC4B", "U+DC4C", "U+DC4D", "U+DC4E", "U+DC4F", "U+DC50",
        "U+DC51", "U+DC52", "U+DC53", "U+DC54", "U+DC55"})
        \cup
    ({"U+D818"} \X
       {"U+DD1E", "U+DD1F", "U+DD20", "U+DD21", "U+DD22", "U+DD23", "U+DD24", "U+DD25", "U+DD26",
        "U+DD27", "U+DD28", "U+DD29", "U+DD2D", "U+DD2E", "U+DD2F"})
        \cup
    ({"U+D81A"} \X
       {"U+DEF0", "U+DEF1", "U+DEF2", "U+DEF3", "U+DEF4", "U+DF30", "U+DF31", "U+DF32", "U+DF33",
        "U+DF34", "U+DF35", "U+DF36", "U+DF40", "U+DF41", "U+DF42", "U+DF43"})
        \cup
    ({"U+D81B"} \X
       {"U+DD40", "U+DD41", "U+DD42", "U+DD6B", "U+DD6C", "U+DF4F", "U+DF8F", "U+DF90", "U+DF91",
        "U+DF92", "U+DF93", "U+DF94", "U+DF95", "U+DF96", "U+DF97", "U+DF98", "U+DF99", "U+DF9A",
        "U+DF9B", "U+DF9C", "U+DF9D", "U+DF9E", "U+DF9F", "U+DFE0", "U+DFE1", "U+DFE3", "U+DFE4",
        "U+DFF2", "U+DFF3"})
        \cup
    ({"U+D82B"} \X
       {"U+DFF0", "U+DFF1", "U+DFF2", "U+DFF3", "U+DFF5", "U+DFF6", "U+DFF7", "U+DFF8", "U+DFF9",
        "U+DFFA", "U+DFFB", "U+DFFD", "U+DFFE"})
        \cup
    ({"U+D82F"} \X
       {"U+DC9D", "U+DC9E", "U+DCA0", "U+DCA1", "U+DCA2", "U+DCA3"})
        \cup
    ({"U+D833"} \X
       {"U+DF00", "U+DF01", "U+DF02", "U+DF03", "U+DF04", "U+DF05", "U+DF06", "U+DF07", "U+DF08",
        "U+DF09", "U+DF0A", "U+DF0B", "U+DF0C", "U+DF0D", "U+DF0E", "U+DF0F", "U+DF10", "U+DF11",
        "U+DF12", "U+DF13", "U+DF14", "U+DF15", "U+DF16", "U+DF17", "U+DF18", "U+DF19", "U+DF1A",
        "U+DF1B", "U+DF1C", "U+DF1D", "U+DF1E", "U+DF1F", "U+DF20", "U+DF21", "U+DF22", "U+DF23",
        "U+DF24", "U+DF25", "U+DF26", "U+DF27", "U+DF28", "U+DF29", "U+DF2A", "U+DF2B", "U+DF2C",
        "U+DF2D", "U+DF30", "U+DF31", "U+DF32", "U+DF33", "U+DF34", "U+DF35", "U+DF36", "U+DF37",
        "U+DF38", "U+DF39", "U+DF3A", "U+DF3B", "U+DF3C", "U+DF3D", "U+DF3E", "U+DF3F", "U+DF40",
        "U+DF41", "U+DF42", "U+DF43", "U+DF44", "U+DF45", "U+DF46"})
        \cup
    ({"U+D834"} \X
       {"U+DD67", "U+DD68", "U+DD69", "U+DD73", "U+DD74", "U+DD75", "U+DD76", "U+DD77", "U+DD78",
        "U+DD79", "U+DD7A", "U+DD7B", "U+DD7C", "U+DD7D", "U+DD7E", "U+DD7F", "U+DD80", "U+DD81",
        "U+DD82", "U+DD85", "U+DD86", "U+DD87", "U+DD88", "U+DD89", "U+DD8A", "U+DD8B", "U+DDAA",
        "U+DDAB", "U+DDAC", "U+DDAD", "U+DE42", "U+DE43", "U+DE44"})
        \cup
    ({"U+D836"} \X
       {"U+DE00", "U+DE01", "U+DE02", "U+DE03", "U+DE04", "U+DE05", "U+DE06", "U+DE07", "U+DE08",
        "U+DE09", "U+DE0A", "U+DE0B", "U+DE0C", "U+DE0D", "U+DE0E", "U+DE0F", "U+DE10", "U+DE11",
        "U+DE12", "U+DE13", "U+DE14", "U+DE15", "U+DE16", "U+DE17", "U+DE18", "U+DE19", "U+DE1A",
        "U+DE1B", "U+DE1C", "U+DE1D", "U+DE1E", "U+DE1F", "U+DE20", "U+DE21", "U+DE22", "U+DE23",
        "U+DE24", "U+DE25", "U+DE26", "U+DE27", "U+DE28", "U+DE29", "U+DE2A", "U+DE2B", "U+DE2C",
        "U+DE2D", "U+DE2E", "U+DE2F", "U+DE30", "U+DE31", "U+DE32", "U+DE33", "U+DE34", "U+DE35",
        "U+DE36", "U+DE3B", "U+DE3C", "U+DE3D", "U+DE3E", "U+DE3F", "U+DE40", "U+DE41", "U+DE42",
        "U+DE43", "U+DE44", "U+DE45", "U+DE46", "U+DE47", "U+DE48", "U+DE49", "U+DE4A", "U+DE4B",
        "U+DE4C", "U+DE4D", "U+DE4E", "U+DE4F", "U+DE50", "U+DE51", "U+DE52", "U+DE53", "U+DE54",
        "U+DE55", "U+DE56", "U+DE57", "U+DE58", "U+DE59", "U+DE5A", "U+DE5B", "U+DE5C", "U+DE5D",
        "U+DE5E", "U+DE5F", "U+DE60", "U+DE61", "U+DE62", "U+DE63", "U+DE64", "U+DE65", "U+DE66",
        "U+DE67", "U+DE68", "U+DE69", "U+DE6A", "U+DE6B", "U+DE6C", "U+DE75", "U+DE84", "U+DE9B",
        "U+DE9C", "U+DE9D", "U+DE9E", "U+DE9F", "U+DEA1", "U+DEA2", "U+DEA3", "U+DEA4", "U+DEA5",
        "U+DEA6", "U+DEA7", "U+DEA8", "U+DEA9", "U+DEAA", "U+DEAB", "U+DEAC", "U+DEAD", "U+DEAE",
        "U+DEAF"})
        \cup
    ({"U+D838"} \X
       {"U+DC00", "U+DC01", "U+DC02", "U+DC03", "U+DC04", "U+DC05", "U+DC06", "U+DC08", "U+DC09",
        "U+DC0A", "U+DC0B", "U+DC0C", "U+DC0D", "U+DC0E", "U+DC0F", "U+DC10", "U+DC11", "U+DC12",
        "U+DC13", "U+DC14", "U+DC15", "U+DC16", "U+DC17", "U+DC18", "U+DC1B", "U+DC1C", "U+DC1D",
        "U+DC1E", "U+DC1F", "U+DC20", "U+DC21", "U+DC23", "U+DC24", "U+DC26", "U+DC27", "U+DC28",
        "U+DC29", "U+DC2A", "U+DC30", "U+DC31", "U+DC32", "U+DC33", "U+DC34", "U+DC35", "U+DC36",
        "U+DC37", "U+DC38", "U+DC39", "U+DC3A", "U+DC3B", "U+DC3C", "U+DC3D", "U+DC3E", "U+DC3F",
        "U+DC40", "U+DC41", "U+DC42", "U+DC43", "U+DC44", "U+DC45", "U+DC46", "U+DC47", "U+DC48",
        "U+DC49", "U+DC4A", "U+DC4B", "U+DC4C", "U+DC4D", "U+DC4E", "U+DC4F", "U+DC50", "U+DC51",
        "U+DC52", "U+DC53", "U+DC54", "U+DC55", "U+DC56", "U+DC57", "U+DC58", "U+DC59", "U+DC5A",
        "U+DC5B", "U+DC5C", "U+DC5D", "U+DC5E", "U+DC5F", "U+DC60", "U+DC61", "U+DC62", "U+DC63",
        "U+DC64", "U+DC65", "U+DC66", "U+DC67", "U+DC68", "U+DC69", "U+DC6A", "U+DC6B", "U+DC6C",
        "U+DC6D", "U+DC8F", "U+DD30", "U+DD31", "U+DD32", "U+DD33", "U+DD34", "U+DD35", "U+DD36",
        "U+DD37", "U+DD38", "U+DD39", "U+DD3A", "U+DD3B", "U+DD3C", "U+DD3D", "U+DEAE", "U+DEEC",
        "U+DEED", "U+DEEE", "U+DEEF"})
        \cup
    ({"U+D839"} \X
       {"U+DCEB", "U+DCEC", "U+DCED", "U+DCEE", "U+DCEF", "U+DDEE", "U+DDEF", "U+DEE3", "U+DEE6",
        "U+DEEE", "U+DEEF", "U+DEF5", "U+DEFF"})
        \cup
    ({"U+D83A"} \X
       {"U+DCD0", "U+DCD1", "U+DCD2", "U+DCD3", "U+DCD4", "U+DCD5", "U+DCD6", "U+DD44", "U+DD45",
        "U+DD46", "U+DD47", "U+DD48", "U+DD49", "U+DD4A", "U+DD4B"})
        \cup
    ({"U+D83C"} \X
       {"U+DFFB", "U+DFFC", "U+DFFD", "U+DFFE", "U+DFFF"})
        \cup
    ({"U+DB40"} \X
       {"U+DC01", "U+DC20", "U+DC21", "U+DC22", "U+DC23", "U+DC24", "U+DC25", "U+DC26", "U+DC27",
        "U+DC28", "U+DC29", "U+DC2A", "U+DC2B", "U+DC2C", "U+DC2D", "U+DC2E", "U+DC2F", "U+DC30",
        "U+DC31", "U+DC32", "U+DC33", "U+DC34", "U+DC35", "U+DC36", "U+DC37", "U+DC38", "U+DC39",
        "U+DC3A", "U+DC3B", "U+DC3C", "U+DC3D", "U+DC3E", "U+DC3F", "U+DC40", "U+DC41", "U+DC42",
        "U+DC43", "U+DC44", "U+DC45", "U+DC46", "U+DC47", "U+DC48", "U+DC49", "U+DC4A", "U+DC4B",
        "U+DC4C", "U+DC4D", "U+DC4E", "U+DC4F", "U+DC50", "U+DC51", "U+DC52", "U+DC53", "U+DC54",
        "U+DC55", "U+DC56", "U+DC57", "U+DC58", "U+DC59", "U+DC5A", "U+DC5B", "U+DC5C", "U+DC5D",
        "U+DC5E", "U+DC5F", "U+DC60", "U+DC61", "U+DC62", "U+DC63", "U+DC64", "U+DC65", "U+DC66",
        "U+DC67", "U+DC68", "U+DC69", "U+DC6A", "U+DC6B", "U+DC6C", "U+DC6D", "U+DC6E", "U+DC6F",
        "U+DC70", "U+DC71", "U+DC72", "U+DC73", "U+DC74", "U+DC75", "U+DC76", "U+DC77", "U+DC78",
        "U+DC79", "U+DC7A", "U+DC7B", "U+DC7C", "U+DC7D", "U+DC7E", "U+DC7F", "U+DD00", "U+DD01",
        "U+DD02", "U+DD03", "U+DD04", "U+DD05", "U+DD06", "U+DD07", "U+DD08", "U+DD09", "U+DD0A",
        "U+DD0B", "U+DD0C", "U+DD0D", "U+DD0E", "U+DD0F", "U+DD10", "U+DD11", "U+DD12", "U+DD13",
        "U+DD14", "U+DD15", "U+DD16", "U+DD17", "U+DD18", "U+DD19", "U+DD1A", "U+DD1B", "U+DD1C",
        "U+DD1D", "U+DD1E", "U+DD1F", "U+DD20", "U+DD21", "U+DD22", "U+DD23", "U+DD24", "U+DD25",
        "U+DD26", "U+DD27", "U+DD28", "U+DD29", "U+DD2A", "U+DD2B", "U+DD2C", "U+DD2D", "U+DD2E",
        "U+DD2F", "U+DD30", "U+DD31", "U+DD32", "U+DD33", "U+DD34", "U+DD35", "U+DD36", "U+DD37",
        "U+DD38", "U+DD39", "U+DD3A", "U+DD3B", "U+DD3C", "U+DD3D", "U+DD3E", "U+DD3F", "U+DD40",
        "U+DD41", "U+DD42", "U+DD43", "U+DD44", "U+DD45", "U+DD46", "U+DD47", "U+DD48", "U+DD49",
        "U+DD4A", "U+DD4B", "U+DD4C", "U+DD4D", "U+DD4E", "U+DD4F", "U+DD50", "U+DD51", "U+DD52",
        "U+DD53", "U+DD54", "U+DD55", "U+DD56", "U+DD57", "U+DD58", "U+DD59", "U+DD5A", "U+DD5B",
        "U+DD5C", "U+DD5D", "U+DD5E", "U+DD5F", "U+DD60", "U+DD61", "U+DD62", "U+DD63", "U+DD64",
        "U+DD65", "U+DD66", "U+DD67", "U+DD68", "U+DD69", "U+DD6A", "U+DD6B", "U+DD6C", "U+DD6D",
        "U+DD6E", "U+DD6F", "U+DD70", "U+DD71", "U+DD72", "U+DD73", "U+DD74", "U+DD75", "U+DD76",
        "U+DD77", "U+DD78", "U+DD79", "U+DD7A", "U+DD7B", "U+DD7C", "U+DD7D", "U+DD7E", "U+DD7F",
        "U+DD80", "U+DD81", "U+DD82", "U+DD83", "U+DD84", "U+DD85", "U+DD86", "U+DD87", "U+DD88",
        "U+DD89", "U+DD8A", "U+DD8B", "U+DD8C", "U+DD8D", "U+DD8E", "U+DD8F", "U+DD90", "U+DD91",
        "U+DD92", "U+DD93", "U+DD94", "U+DD95", "U+DD96", "U+DD97", "U+DD98", "U+DD99", "U+DD9A",
        "U+DD9B", "U+DD9C", "U+DD9D", "U+DD9E", "U+DD9F", "U+DDA0", "U+DDA1", "U+DDA2", "U+DDA3",
        "U+DDA4", "U+DDA5", "U+DDA6", "U+DDA7", "U+DDA8", "U+DDA9", "U+DDAA", "U+DDAB", "U+DDAC",
        "U+DDAD", "U+DDAE", "U+DDAF", "U+DDB0", "U+DDB1", "U+DDB2", "U+DDB3", "U+DDB4", "U+DDB5",
        "U+DDB6", "U+DDB7", "U+DDB8", "U+DDB9", "U+DDBA", "U+DDBB", "U+DDBC", "U+DDBD", "U+DDBE",
        "U+DDBF", "U+DDC0", "U+DDC1", "U+DDC2", "U+DDC3", "U+DDC4", "U+DDC5", "U+DDC6", "U+DDC7",
        "U+DDC8", "U+DDC9", "U+DDCA", "U+DDCB", "U+DDCC", "U+DDCD", "U+DDCE", "U+DDCF", "U+DDD0",
        "U+DDD1", "U+DDD2", "U+DDD3", "U+DDD4", "U+DDD5", "U+DDD6", "U+DDD7", "U+DDD8", "U+DDD9",
        "U+DDDA", "U+DDDB", "U+DDDC", "U+DDDD", "U+DDDE", "U+DDDF", "U+DDE0", "U+DDE1", "U+DDE2",
        "U+DDE3", "U+DDE4", "U+DDE5", "U+DDE6", "U+DDE7", "U+DDE8", "U+DDE9", "U+DDEA", "U+DDEB",
        "U+DDEC", "U+DDED", "U+DDEE", "U+DDEF"})

\* The code points above U+FFFF with the property Cased and without
\* Case_Ignorable, as pairs of surrogate units.
AstralCased ==
    ({"U+D801"} \X
       {"U+DC00", "U+DC01", "U+DC02", "U+DC03", "U+DC04", "U+DC05", "U+DC06", "U+DC07", "U+DC08",
        "U+DC09", "U+DC0A", "U+DC0B", "U+DC0C", "U+DC0D", "U+DC0E", "U+DC0F", "U+DC10", "U+DC11",
        "U+DC12", "U+DC13", "U+DC14", "U+DC15", "U+DC16", "U+DC17", "U+DC18", "U+DC19", "U+DC1A",
        "U+DC1B", "U+DC1C", "U+DC1D", "U+DC1E", "U+DC1F", "U+DC20", "U+DC21", "U+DC22", "U+DC23",
        "U+DC24", "U+DC25", "U+DC26", "U+DC27", "U+DC28", "U+DC29", "U+DC2A", "U+DC2B", "U+DC2C",
        "U+DC2D", "U+DC2E", "U+DC2F", "U+DC30", "U+DC31", "U+DC32", "U+DC33", "U+DC34", "U+DC35",
        "U+DC36", "U+DC37", "U+DC38", "U+DC39", "U+DC3A", "U+DC3B", "U+DC3C", "U+DC3D", "U+DC3E",
        "U+DC3F", "U+DC40", "U+DC41", "U+DC42", "U+DC43", "U+DC44", "U+DC45", "U+DC46", "U+DC47",
        "U+DC48", "U+DC49", "U+DC4A", "U+DC4B", "U+DC4C", "U+DC4D", "U+DC4E", "U+DC4F", "U+DCB0",
        "U+DCB1", "U+DCB2", "U+DCB3", "U+DCB4", "U+DCB5", "U+DCB6", "U+DCB7", "U+DCB8", "U+DCB9",
        "U+DCBA", "U+DCBB", "U+DCBC", "U+DCBD", "U+DCBE", "U+DCBF", "U+DCC0", "U+DCC1", "U+DCC2",
        "U+DCC3", "U+DCC4", "U+DCC5", "U+DCC6", "U+DCC7", "U+DCC8", "U+DCC9", "U+DCCA", "U+DCCB",
        "U+DCCC", "U+DCCD", "U+DCCE", "U+DCCF", "U+DCD0", "U+DCD1", "U+DCD2", "U+DCD3", "U+DCD8",
        "U+DCD9", "U+DCDA", "U+DCDB", "U+DCDC", "U+DCDD", "U+DCDE", "U+DCDF", "U+DCE0", "U+DCE1",
        "U+DCE2", "U+DCE3", "U+DCE4", "U+DCE5", "U+DCE6", "U+DCE7", "U+DCE8", "U+DCE9", "U+DCEA",
        "U+DCEB", "U+DCEC", "U+DCED", "U+DCEE", "U+DCEF", "U+DCF0", "U+DCF1", "U+DCF2", "U+DCF3",
        "U+DCF4", "U+DCF5", "U+DCF6", "U+DCF7", "U+DCF8", "U+DCF9", "U+DCFA", "U+DCFB", "U+DD70",
        "U+DD71", "U+DD72", "U+DD73", "U+DD74", "U+DD75", "U+DD76", "U+DD77", "U+DD78", "U+DD79",
        "U+DD7A", "U+DD7C", "U+DD7D", "U+DD7E", "U+DD7F", "U+DD80", "U+DD81", "U+DD82", "U+DD83",
        "U+DD84", "U+DD85", "U+DD86", "U+DD87", "U+DD88", "U+DD89", "U+DD8A", "U+DD8C", "U+DD8D",
        "U+DD8E", "U+DD8F", "U+DD90", "U+DD91", "U+DD92", "U+DD94", "U+DD95", "U+DD97", "U+DD98",
        "U+DD99", "U+DD9A", "U+DD9B", "U+DD9C", "U+DD9D", "U+DD9E", "U+DD9F", "U+DDA0", "U+DDA1",
        "U+DDA3", "U+DDA4", "U+DDA5", "U+DDA6", "U+DDA7", "U+DDA8", "U+DDA9", "U+DDAA", "U+DDAB",
        "U+DDAC", "U+DDAD", "U+DDAE", "U+DDAF", "U+DDB0", "U+DDB1", "U+DDB3", "U+DDB4", "U+DDB5",
        "U+DDB6", "U+DDB7", "U+DDB8", "U+DDB9", "U+DDBB", "U+DDBC"})
        \cup
    ({"U+D803"} \X
       {"U+DC80", "U+DC81", "U+DC82", "U+DC83", "U+DC84", "U+DC85", "U+DC86", "U+DC87", "U+DC88",
        "U+DC89", "U+DC8A", "U+DC8B", "U+DC8C", "U+DC8D", "U+DC8E", "U+DC8F", "U+DC90", "U+DC91",
        "U+DC92", "U+DC93", "U+DC94", "U+DC95", "U+DC96", "U+DC97", "U+DC98", "U+DC99", "U+DC9A",
        "U+DC9B", "U+DC9C", "U+DC9D", "U+DC9E", "U+DC9F", "U+DCA0", "U+DCA1", "U+DCA2", "U+DCA3",
        "U+DCA4", "U+DCA5", "U+DCA6", "U+DCA7", "U+DCA8", "U+DCA9", "U+DCAA", "U+DCAB", "U+DCAC",
        "U+DCAD", "U+DCAE", "U+DCAF", "U+DCB0", "U+DCB1", "U+DCB2", "U+DCC0", "U+DCC1", "U+DCC2",
        "U+DCC3", "U+DCC4", "U+DCC5", "U+DCC6", "U+DCC7", "U+DCC8", "U+DCC9", "U+DCCA", "U+DCCB",
        "U+DCCC", "U+DCCD", "U+DCCE", "U+DCCF", "U+DCD0", "U+DCD1", "U+DCD2", "U+DCD3", "U+DCD4",
        "U+DCD5", "U+DCD6", "U+DCD7", "U+DCD8", "U+DCD9", "U+DCDA", "U+DCDB", "U+DCDC", "U+DCDD",
        "U+DCDE", "U+DCDF", "U+DCE0", "U+DCE1", "U+DCE2", "U+DCE3", "U+DCE4", "U+DCE5", "U+DCE6",
        "U+DCE7", "U+DCE8", "U+DCE9", "U+DCEA", "U+DCEB", "U+DCEC", "U+DCED", "U+DCEE", "U+DCEF",
        "U+DCF0", "U+DCF1", "U+DCF2", "U+DD50", "U+DD51", "U+DD52", "U+DD53", "U+DD54", "U+DD55",
        "U+DD56", "U+DD57", "U+DD58", "U+DD59", "U+DD5A", "U+DD5B", "U+DD5C", "U+DD5D", "U+DD5E",
        "U+DD5F", "U+DD60", "U+DD61", "U+DD62", "U+DD63", "U+DD64", "U+DD65", "U+DD70", "U+DD71",
        "U+DD72", "U+DD73", "U+DD74", "U+DD75", "U+DD76", "U+DD77", "U+DD78", "U+DD79", "U+DD7A",
        "U+DD7B", "U+DD7C", "U+DD7D", "U+DD7E", "U+DD7F", "U+DD80", "U+DD81", "U+DD82", "U+DD83",
        "U+DD84", "U+DD85"})
        \cup
    ({"U+D806"} \X
       {"U+DCA0", "U+DCA1", "U+DCA2", "U+DCA3", "U+DCA4", "U+DCA5", "U+DCA6", "U+DCA7", "U+DCA8",
        "U+DCA9", "U+DCAA", "U+DCAB", "U+DCAC", "U+DCAD", "U+DCAE", "U+DCAF", "U+DCB0", "U+DCB1",
        "U+DCB2", "U+DCB3", "U+DCB4", "U+DCB5", "U+DCB6", "U+DCB7", "U+DCB8", "U+DCB9", "U+DCBA",
        "U+DCBB", "U+DCBC", "U+DCBD", "U+DCBE", "U+DCBF", "U+DCC0", "U+DCC1", "U+DCC2", "U+DCC3",
        "U+DCC4", "U+DCC5", "U+DCC6", "U+DCC7", "U+DCC8", "U+DCC9", "U+DCCA", "U+DCCB", "U+DCCC",
        "U+DCCD", "U+DCCE", "U+DCCF", "U+DCD0", "U+DCD1", "U+DCD2", "U+DCD3", "U+DCD4", "U+DCD5",
        "U+DCD6", "U+DCD7", "U+DCD8", "U+DCD9", "U+DCDA", "U+DCDB", "U+DCDC", "U+DCDD", "U+DCDE",
        "U+DCDF"})
        \cup
    ({"U+D81B"} \X
       {"U+DE40", "U+DE41", "U+DE42", "U+DE43", "U+DE44", "U+DE45", "U+DE46", "U+DE47", "U+DE48",
        "U+DE49", "U+DE4A", "U+DE4B", "U+DE4C", "U+DE4D", "U+DE4E", "U+DE4F", "U+DE50", "U+DE51",
        "U+DE52", "U+DE53", "U+DE54", "U+DE55", "U+DE56", "U+DE57", "U+DE58", "U+DE59", "U+DE5A",
        "U+DE5B", "U+DE5C", "U+DE5D", "U+DE5E", "U+DE5F", "U+DE60", "U+DE61", "U+DE62", "U+DE63",
        "U+DE64", "U+DE65", "U+DE66", "U+DE67", "U+DE68", "U+DE69", "U+DE6A", "U+DE6B", "U+DE6C",
        "U+DE6D", "U+DE6E", "U+DE6F", "U+DE70", "U+DE71", "U+DE72", "U+DE73", "U+DE74", "U+DE75",
        "U+DE76", "U+DE77", "U+DE78", "U+DE79", "U+DE7A", "U+DE7B", "U+DE7C", "U+DE7D", "U+DE7E",
        "U+DE7F", "U+DEA0", "U+DEA1", "U+DEA2", "U+DEA3", "U+DEA4", "U+DEA5", "U+DEA6", "U+DEA7",
        "U+DEA8", "U+DEA9", "U+DEAA", "U+DEAB", "U+DEAC", "U+DEAD", "U+DEAE", "U+DEAF", "U+DEB0",
        "U+DEB1", "U+DEB2", "U+DEB3", "U+DEB4", "U+DEB5", "U+DEB6", "U+DEB7", "U+DEB8", "U+DEBB",
        "U+DEBC", "U+DEBD", "U+DEBE", "U+DEBF", "U+DEC0", "U+DEC1", "U+DEC2", "U+DEC3", "U+DEC4",
        "U+DEC5", "U+DEC6", "U+DEC7", "U+DEC8", "U+DEC9", "U+DECA", "U+DECB", "U+DECC", "U+DECD",
        "U+DECE", "U+DECF", "U+DED0", "U+DED1", "U+DED2", "U+DED3"})
        \cup
    ({"U+D835"} \X
       {"U+DC00", "U+DC01", "U+DC02", "U+DC03", "U+DC04", "U+DC05", "U+DC06", "U+DC07", "U+DC08",
        "U+DC09", "U+DC0A", "U+DC0B", "U+DC0C", "U+DC0D", "U+DC0E", "U+DC0F", "U+DC10", "U+DC11",
        "U+DC12", "U+DC13", "U+DC14", "U+DC15", "U+DC16", "U+DC17", "U+DC18", "U+DC19", "U+DC1A",
        "U+DC1B", "U+DC1C", "U+DC1D", "U+DC1E", "U+DC1F", "U+DC20", "U+DC21", "U+DC22", "U+DC23",
        "U+DC24", "U+DC25", "U+DC26", "U+DC27", "U+DC28", "U+DC29", "U+DC2A", "U+DC2B", "U+DC2C",
        "U+DC2D", "U+DC2E", "U+DC2F", "U+DC30", "U+DC31", "U+DC32", "U+DC33", "U+DC34", "U+DC35",
        "U+DC36", "U+DC37", "U+DC38", "U+DC39", "U+DC3A", "U+DC3B", "U+DC3C", "U+DC3D", "U+DC3E",
        "U+DC3F", "U+DC40", "U+DC41", "U+DC42", "U+DC43", "U+DC44", "U+DC45", "U+DC46", "U+DC47",
        "U+DC48", "U+DC49", "U+DC4A", "U+DC4B", "U+DC4C", "U+DC4D", "U+DC4E", "U+DC4F", "U+DC50",
        "U+DC51", "U+DC52", "U+DC53", "U+DC54", "U+DC56", "U+DC57", "U+DC58", "U+DC59", "U+DC5A",
        "U+DC5B", "U+DC5C", "U+DC5D", "U+DC5E", "U+DC5F", "U+DC60", "U+DC61", "U+DC62", "U+DC63",
        "U+DC64", "U+DC65", "U+DC66", "U+DC67", "U+DC68", "U+DC69", "U+DC6A", "U+DC6B", "U+DC6C",
        "U+DC6D", "U+DC6E", "U+DC6F", "U+DC70", "U+DC71", "U+DC72", "U+DC73", "U+DC74", "U+DC75",
        "U+DC76", "U+DC77", "U+DC78", "U+DC79", "U+DC7A", "U+DC7B", "U+DC7C", "U+DC7D", "U+DC7E",
        "U+DC7F", "U+DC80", "U+DC81", "U+DC82", "U+DC83", "U+DC84", "U+DC85", "U+DC86", "U+DC87",
        "U+DC88", "U+DC89", "U+DC8A", "U+DC8B", "U+DC8C", "U+DC8D", "U+DC8E", "U+DC8F", "U+DC90",
        "U+DC91", "U+DC92", "U+DC93", "U+DC94", "U+DC95", "U+DC96", "U+DC97", "U+DC98", "U+DC99",
        "U+DC9A", "U+DC9B", "U+DC9C", "U+DC9E", "U+DC9F", "U+DCA2", "U+DCA5", "U+DCA6", "U+DCA9",
        "U+DCAA", "U+DCAB", "U+DCAC", "U+DCAE", "U+DCAF", "U+DCB0", "U+DCB1", "U+DCB2", "U+DCB3",
        "U+DCB4", "U+DCB5", "U+DCB6", "U+DCB7", "U+DCB8", "U+DCB9", "U+DCBB", "U+DCBD", "U+DCBE",
        "U+DCBF", "U+DCC0", "U+DCC1", "U+DCC2", "U+DCC3", "U+DCC5", "U+DCC6", "U+DCC7", "U+DCC8",
        "U+DCC9", "U+DCCA", "U+DCCB", "U+DCCC", "U+DCCD", "U+DCCE", "U+DCCF", "U+DCD0", "U+DCD1",
        "U+DCD2", "U+DCD3", "U+DCD4", "U+DCD5", "U+DCD6", "U+DCD7", "U+DCD8", "U+DCD9", "U+DCDA",
        "U+DCDB", "U+DCDC", "U+DCDD", "U+DCDE", "U+DCDF", "U+DCE0", "U+DCE1", "U+DCE2", "U+DCE3",
        "U+DCE4", "U+DCE5", "U+DCE6", "U+DCE7", "U+DCE8", "U+DCE9", "U+DCEA", "U+DCEB", "U+DCEC",
        "U+DCED", "U+DCEE", "U+DCEF", "U+DCF0", "U+DCF1", "U+DCF2", "U+DCF3", "U+DCF4", "U+DCF5",
        "U+DCF6", "U+DCF7", "U+DCF8", "U+DCF9", "U+DCFA", "U+DCFB", "U+DCFC", "U+DCFD", "U+DCFE",
        "U+DCFF", "U+DD00", "U+DD01", "U+DD02", "U+DD03", "U+DD04", "U+DD05", "U+DD07", "U+DD08",
        "U+DD09", "U+DD0A", "U+DD0D", "U+DD0E", "U+DD0F", "U+DD10", "U+DD11", "U+DD12", "U+DD13",
        "U+DD14", "U+DD16", "U+DD17", "U+DD18", "U+DD19", "U+DD1A", "U+DD1B", "U+DD1C", "U+DD1E",
        "U+DD1F", "U+DD20", "U+DD21", "U+DD22", "U+DD23", "U+DD24", "U+DD25", "U+DD26", "U+DD27",
        "U+DD28", "U+DD29", "U+DD2A", "U+DD2B", "U+DD2C", "U+DD2D", "U+DD2E", "U+DD2F", "U+DD30",
        "U+DD31", "U+DD32", "U+DD33", "U+DD34", "U+DD35", "U+DD36", "U+DD37", "U+DD38", "U+DD39",
        "U+DD3B", "U+DD3C", "U+DD3D", "U+DD3E", "U+DD40", "U+DD41", "U+DD42", "U+DD43", "U+DD44",
        "U+DD46", "U+DD4A", "U+DD4B", "U+DD4C", "U+DD4D", "U+DD4E", "U+DD4F", "U+DD50", "U+DD52",
        "U+DD53", "U+DD54", "U+DD55", "U+DD56", "U+DD57", "U+DD58", "U+DD59", "U+DD5A", "U+DD5B",
        "U+DD5C", "U+DD5D", "U+DD5E", "U+DD5F", "U+DD60", "U+DD61", "U+DD62", "U+DD63", "U+DD64",
        "U+DD65", "U+DD66", "U+DD67", "U+DD68", "U+DD69", "U+DD6A", "U+DD6B", "U+DD6C", "U+DD6D",
        "U+DD6E", "U+DD6F", "U+DD70", "U+DD71", "U+DD72", "U+DD73", "U+DD74", "U+DD75", "U+DD76",
        "U+DD77", "U+DD78", "U+DD79", "U+DD7A", "U+DD7B", "U+DD7C", "U+DD7D", "U+DD7E", "U+DD7F",
        "U+DD80", "U+DD81", "U+DD82", "U+DD83", "U+DD84", "U+DD85", "U+DD86", "U+DD87", "U+DD88",
        "U+DD89", "U+DD8A", "U+DD8B", "U+DD8C", "U+DD8D", "U+DD8E", "U+DD8F", "U+DD90", "U+DD91",
        "U+DD92", "U+DD93", "U+DD94", "U+DD95", "U+DD96", "U+DD97", "U+DD98", "U+DD99", "U+DD9A",
        "U+DD9B", "U+DD9C", "U+DD9D", "U+DD9E", "U+DD9F", "U+DDA0", "U+DDA1", "U+DDA2", "U+DDA3",
        "U+DDA4", "U+DDA5", "U+DDA6", "U+DDA7", "U+DDA8", "U+DDA9", "U+DDAA", "U+DDAB", "U+DDAC",
        "U+DDAD", "U+DDAE", "U+DDAF", "U+DDB0", "U+DDB1", "U+DDB2", "U+DDB3", "U+DDB4", "U+DDB5",
        "U+DDB6", "U+DDB7", "U+DDB8", "U+DDB9", "U+DDBA", "U+DDBB", "U+DDBC", "U+DDBD", "U+DDBE",
        "U+DDBF", "U+DDC0", "U+DDC1", "U+DDC2", "U+DDC3", "U+DDC4", "U+DDC5", "U+DDC6", "U+DDC7",
        "U+DDC8", "U+DDC9", "U+DDCA", "U+DDCB", "U+DDCC", "U+DDCD", "U+DDCE", "U+DDCF", "U+DDD0",
        "U+DDD1", "U+DDD2", "U+DDD3", "U+DDD4", "U+DDD5", "U+DDD6", "U+DDD7", "U+DDD8", "U+DDD9",
        "U+DDDA", "U+DDDB", "U+DDDC", "U+DDDD", "U+DDDE", "U+DDDF", "U+DDE0", "U+DDE1", "U+DDE2",
        "U+DDE3", "U+DDE4", "U+DDE5", "U+DDE6", "U+DDE7", "U+DDE8", "U+DDE9", "U+DDEA", "U+DDEB",
        "U+DDEC", "U+DDED", "U+DDEE", "U+DDEF", "U+DDF0", "U+DDF1", "U+DDF2", "U+DDF3", "U+DDF4",
        "U+DDF5", "U+DDF6", "U+DDF7", "U+DDF8", "U+DDF9", "U+DDFA", "U+DDFB", "U+DDFC", "U+DDFD",
        "U+DDFE", "U+DDFF", "U+DE00", "U+DE01", "U+DE02", "U+DE03", "U+DE04", "U+DE05", "U+DE06",
        "U+DE07", "U+DE08", "U+DE09", "U+DE0A", "U+DE0B", "U+DE0C", "U+DE0D", "U+DE0E", "U+DE0F",
        "U+DE10", "U+DE11", "U+DE12", "U+DE13", "U+DE14", "U+DE15", "U+DE16", "U+DE17", "U+DE18",
        "U+DE19", "U+DE1A", "U+DE1B", "U+DE1C", "U+DE1D", "U+DE1E", "U+DE1F", "U+DE20", "U+DE21",
        "U+DE22", "U+DE23", "U+DE24", "U+DE25", "U+DE26", "U+DE27", "U+DE28", "U+DE29", "U+DE2A",
        "U+DE2B", "U+DE2C", "U+DE2D", "U+DE2E", "U+DE2F", "U+DE30", "U+DE31", "U+DE32", "U+DE33",
        "U+DE34", "U+DE35", "U+DE36", "U+DE37", "U+DE38", "U+DE39", "U+DE3A", "U+DE3B", "U+DE3C",
        "U+DE3D", "U+DE3E", "U+DE3F", "U+DE40", "U+DE41", "U+DE42", "U+DE43", "U+DE44", "U+DE45",
        "U+DE46", "U+DE47", "U+DE48", "U+DE49", "U+DE4A", "U+DE4B", "U+DE4C", "U+DE4D", "U+DE4E",
        "U+DE4F", "U+DE50", "U+DE51", "U+DE52", "U+DE53", "U+DE54", "U+DE55", "U+DE56", "U+DE57",
        "U+DE58", "U+DE59", "U+DE5A", "U+DE5B", "U+DE5C", "U+DE5D", "U+DE5E", "U+DE5F", "U+DE60",
        "U+DE61", "U+DE62", "U+DE63", "U+DE64", "U+DE65", "U+DE66", "U+DE67", "U+DE68", "U+DE69",
        "U+DE6A", "U+DE6B", "U+DE6C", "U+DE6D", "U+DE6E", "U+DE6F", "U+DE70", "U+DE71", "U+DE72",
        "U+DE73", "U+DE74", "U+DE75", "U+DE76", "U+DE77", "U+DE78", "U+DE79", "U+DE7A", "U+DE7B",
        "U+DE7C", "U+DE7D", "U+DE7E", "U+DE7F", "U+DE80", "U+DE81", "U+DE82", "U+DE83", "U+DE84",
        "U+DE85", "U+DE86", "U+DE87", "U+DE88", "U+DE89", "U+DE8A", "U+DE8B", "U+DE8C", "U+DE8D",
        "U+DE8E", "U+DE8F", "U+DE90", "U+DE91", "U+DE92", "U+DE93", "U+DE94", "U+DE95", "U+DE96",
        "U+DE97", "U+DE98", "U+DE99", "U+DE9A", "U+DE9B", "U+DE9C", "U+DE9D", "U+DE9E", "U+DE9F",
        "U+DEA0", "U+DEA1", "U+DEA2", "U+DEA3", "U+DEA4", "U+DEA5", "U+DEA8", "U+DEA9", "U+DEAA",
        "U+DEAB", "U+DEAC", "U+DEAD", "U+DEAE", "U+DEAF", "U+DEB0", "U+DEB1", "U+DEB2", "U+DEB3",
        "U+DEB4", "U+DEB5", "U+DEB6", "U+DEB7", "U+DEB8", "U+DEB9", "U+DEBA", "U+DEBB", "U+DEBC",
        "U+DEBD", "U+DEBE", "U+DEBF", "U+DEC0", "U+DEC2", "U+DEC3", "U+DEC4", "U+DEC5", "U+DEC6",
        "U+DEC7", "U+DEC8", "U+DEC9", "U+DECA", "U+DECB", "U+DECC", "U+DECD", "U+DECE", "U+DECF",
        "U+DED0", "U+DED1", "U+DED2", "U+DED3", "U+DED4", "U+DED5", "U+DED6", "U+DED7", "U+DED8",
        "U+DED9", "U+DEDA", "U+DEDC", "U+DEDD", "U+DEDE", "U+DEDF", "U+DEE0", "U+DEE1", "U+DEE2",
        "U+DEE3", "U+DEE4", "U+DEE5", "U+DEE6", "U+DEE7", "U+DEE8", "U+DEE9", "U+DEEA", "U+DEEB",
        "U+DEEC", "U+DEED", "U+DEEE", "U+DEEF", "U+DEF0", "U+DEF1", "U+DEF2", "U+DEF3", "U+DEF4",
        "U+DEF5", "U+DEF6", "U+DEF7", "U+DEF8", "U+DEF9", "U+DEFA", "U+DEFC", "U+DEFD", "U+DEFE",
        "U+DEFF", "U+DF00", "U+DF01", "U+DF02", "U+DF03", "U+DF04", "U+DF05", "U+DF06", "U+DF07",
        "U+DF08", "U+DF09", "U+DF0A", "U+DF0B", "U+DF0C", "U+DF0D", "U+DF0E", "U+DF0F", "U+DF10",
        "U+DF11", "U+DF12", "U+DF13", "U+DF14", "U+DF16", "U+DF17", "U+DF18", "U+DF19", "U+DF1A",
        "U+DF1B", "U+DF1C", "U+DF1D", "U+DF1E", "U+DF1F", "U+DF20", "U+DF21", "U+DF22", "U+DF23",
        "U+DF24", "U+DF25", "U+DF26", "U+DF27", "U+DF28", "U+DF29", "U+DF2A", "U+DF2B", "U+DF2C",
        "U+DF2D", "U+DF2E", "U+DF2F", "U+DF30", "U+DF31", "U+DF32", "U+DF33", "U+DF34", "U+DF36",
        "U+DF37", "U+DF38", "U+DF39", "U+DF3A", "U+DF3B", "U+DF3C", "U+DF3D", "U+DF3E", "U+DF3F",
        "U+DF40", "U+DF41", "U+DF42", "U+DF43", "U+DF44", "U+DF45", "U+DF46", "U+DF47", "U+DF48",
        "U+DF49", "U+DF4A", "U+DF4B", "U+DF4C", "U+DF4D", "U+DF4E", "U+DF50", "U+DF51", "U+DF52",
        "U+DF53", "U+DF54", "U+DF55", "U+DF56", "U+DF57", "U+DF58", "U+DF59", "U+DF5A", "U+DF5B",
        "U+DF5C", "U+DF5D", "U+DF5E", "U+DF5F", "U+DF60", "U+DF61", "U+DF62", "U+DF63", "U+DF64",
        "U+DF65", "U+DF66", "U+DF67", "U+DF68", "U+DF69", "U+DF6A", "U+DF6B", "U+DF6C", "U+DF6D",
        "U+DF6E", "U+DF70", "U+DF71", "U+DF72", "U+DF73", "U+DF74", "U+DF75", "U+DF76", "U+DF77",
        "U+DF78", "U+DF79", "U+DF7A", "U+DF7B", "U+DF7C", "U+DF7D", "U+DF7E", "U+DF7F", "U+DF80",
        "U+DF81", "U+DF82", "U+DF83", "U+DF84", "U+DF85", "U+DF86", "U+DF87", "U+DF88", "U+DF8A",
        "U+DF8B", "U+DF8C", "U+DF8D", "U+DF8E", "U+DF8F", "U+DF90", "U+DF91", "U+DF92", "U+DF93",
        "U+DF94", "U+DF95", "U+DF96", "U+DF97", "U+DF98", "U+DF99", "U+DF9A", "U+DF9B", "U+DF9C",
        "U+DF9D", "U+DF9E", "U+DF9F", "U+DFA0", "U+DFA1", "U+DFA2", "U+DFA3", "U+DFA4", "U+DFA5",
        "U+DFA6", "U+DFA7", "U+DFA8", "U+DFAA", "U+DFAB", "U+DFAC", "U+DFAD", "U+DFAE", "U+DFAF",
        "U+DFB0", "U+DFB1", "U+DFB2", "U+DFB3", "U+DFB4", "U+DFB5", "U+DFB6", "U+DFB7", "U+DFB8",
        "U+DFB9", "U+DFBA", "U+DFBB", "U+DFBC", "U+DFBD", "U+DFBE", "U+DFBF", "U+DFC0", "U+DFC1",
        "U+DFC2", "U+DFC4", "U+DFC5", "U+DFC6", "U+DFC7", "U+DFC8", "U+DFC9", "U+DFCA", "U+DFCB"})
        \cup
    ({"U+D837"} \X
       {"U+DF00", "U+DF01", "U+DF02", "U+DF03", "U+DF04", "U+DF05", "U+DF06", "U+DF07", "U+DF08",
        "U+DF09", "U+DF0B", "U+DF0C", "U+DF0D", "U+DF0E", "U+DF0F", "U+DF10", "U+DF11", "U+DF12",
        "U+DF13", "U+DF14", "U+DF15", "U+DF16", "U+DF17", "U+DF18", "U+DF19", "U+DF1A", "U+DF1B",
        "U+DF1C", "U+DF1D", "U+DF1E", "U+DF25", "U+DF26", "U+DF27", "U+DF28", "U+DF29", "U+DF2A"})
        \cup
    ({"U+D83A"} \X
       {"U+DD00", "U+DD01", "U+DD02", "U+DD03", "U+DD04", "U+DD05", "U+DD06", "U+DD07", "U+DD08",
        "U+DD09", "U+DD0A", "U+DD0B", "U+DD0C", "U+DD0D", "U+DD0E", "U+DD0F", "U+DD10", "U+DD11",
        "U+DD12", "U+DD13", "U+DD14", "U+DD15", "U+DD16", "U+DD17", "U+DD18", "U+DD19", "U+DD1A",
        "U+DD1B", "U+DD1C", "U+DD1D", "U+DD1E", "U+DD1F", "U+DD20", "U+DD21", "U+DD22", "U+DD23",
        "U+DD24", "U+DD25", "U+DD26", "U+DD27", "U+DD28", "U+DD29", "U+DD2A", "U+DD2B", "U+DD2C",
        "U+DD2D", "U+DD2E", "U+DD2F", "U+DD30", "U+DD31", "U+DD32", "U+DD33", "U+DD34", "U+DD35",
        "U+DD36", "U+DD37", "U+DD38", "U+DD39", "U+DD3A", "U+DD3B", "U+DD3C", "U+DD3D", "U+DD3E",
        "U+DD3F", "U+DD40", "U+DD41", "U+DD42", "U+DD43"})
        \cup
    ({"U+D83C"} \X
       {"U+DD30", "U+DD31", "U+DD32", "U+DD33", "U+DD34", "U+DD35", "U+DD36", "U+DD37", "U+DD38",
        "U+DD39", "U+DD3A", "U+DD3B", "U+DD3C", "U+DD3D", "U+DD3E", "U+DD3F", "U+DD40", "U+DD41",
        "U+DD42", "U+DD43", "U+DD44", "U+DD45", "U+DD46", "U+DD47", "U+DD48", "U+DD49", "U+DD50",
        "U+DD51", "U+DD52", "U+DD53", "U+DD54", "U+DD55", "U+DD56", "U+DD57", "U+DD58", "U+DD59",
        "U+DD5A", "U+DD5B", "U+DD5C", "U+DD5D", "U+DD5E", "U+DD5F", "U+DD60", "U+DD61", "U+DD62",
        "U+DD63", "U+DD64", "U+DD65", "U+DD66", "U+DD67", "U+DD68", "U+DD69", "U+DD70", "U+DD71",
        "U+DD72", "U+DD73", "U+DD74", "U+DD75", "U+DD76", "U+DD77", "U+DD78", "U+DD79", "U+DD7A",
        "U+DD7B", "U+DD7C", "U+DD7D", "U+DD7E", "U+DD7F", "U+DD80", "U+DD81", "U+DD82", "U+DD83",
        "U+DD84", "U+DD85", "U+DD86", "U+DD87", "U+DD88", "U+DD89"})

\* What toLowerCase makes of each ASCII character: A-Z become a-z.
AsciiLowerOf ==
    [c \in Ascii |-> IF \E i \in 1..26 : Upper[i] = c
                     THEN Lower[CHOOSE i \in 1..26 : Upper[i] = c]
                     ELSE c]

\* toLowerCase on an ASCII character.
AsciiLower(c) == IF c \in Ascii THEN AsciiLowerOf[c] ELSE c

\* The code units above U+007F that toLowerCase changes when they stand alone.
UpperUnits == {p[1] : p \in LowerPairs}

\* The code units each of them becomes.
LowerOf == [c \in UpperUnits |-> (CHOOSE p \in LowerPairs : p[1] = c)[2]]

\* The surrogate pairs toLowerCase changes, and what each becomes.
AstralUpper == {p[1] : p \in AstralLowerPairs}

AstralLowerOf == [u \in AstralUpper |-> (CHOOSE p \in AstralLowerPairs : p[1] = u)[2]]

\* toLowerCase on the one-character string c: the code units of the result
\* (two for U+0130, else one).
LowerChar(c) ==
    IF c \in Ascii THEN <<AsciiLower(c)>>
    ELSE IF c \in UpperUnits THEN LowerOf[c]
    ELSE <<c>>

RECURSIVE CasedBefore(_, _)
\* Before position j + 1 of s there is a cased letter, followed by nothing
\* but case-ignorable characters.
CasedBefore(s, j) ==
    IF j < 1 THEN FALSE
    ELSE IF j >= 2 /\ <<s[j - 1], s[j]>> \in AstralIgnorable THEN CasedBefore(s, j - 2)
    ELSE IF j >= 2 /\ <<s[j - 1], s[j]>> \in AstralCased THEN TRUE
    ELSE IF s[j] \in IgnorableUnits THEN CasedBefore(s, j - 1)
    ELSE s[j] \in CasedUnits

RECURSIVE CasedAfter(_, _)
\* From position j of s on there is a cased letter, preceded by nothing but
\* case-ignorable characters.
CasedAfter(s, j) ==
    IF j > Len(s) THEN FALSE
    ELSE IF j < Len(s) /\ <<s[j], s[j + 1]>> \in AstralIgnorable THEN CasedAfter(s, j + 2)
    ELSE IF j < Len(s) /\ <<s[j], s[j + 1]>> \in AstralCased THEN TRUE
    ELSE IF s[j] \in IgnorableUnits THEN CasedAfter(s, j + 1)
    ELSE s[j] \in CasedUnits

\* The capital sigma at position i of s is a final sigma (Unicode's
\* Final_Sigma condition).
FinalSigma(s, i) == CasedBefore(s, i - 1) /\ ~CasedAfter(s, i + 1)

RECURSIVE LowerFrom(_, _)
\* toLowerCase on s from position i on.
LowerFrom(s, i) ==
    IF i > Len(s) THEN <<>>
    ELSE IF i < Len(s) /\ <<s[i], s[i + 1]>> \in AstralUpper
         THEN AstralLowerOf[<<s[i], s[i + 1]>>] \o LowerFrom(s, i + 2)
    ELSE IF s[i] = "U+03A3"
         THEN <<IF FinalSigma(s, i) THEN "U+03C2" ELSE "U+03C3">> \o LowerFrom(s, i + 1)
    ELSE LowerChar(s[i]) \o LowerFrom(s, i + 1)

\* String.prototype.toLowerCase.
toLowerCase(s) ==
    IF \A i \in 1..Len(s) : s[i] \in Ascii
    THEN [i \in 1..Len(s) |-> AsciiLower(s[i])]
    ELSE LowerFrom(s, 1)

\* String.prototype.includes: needle occurs as a contiguous substring.
includes(hay, needle) ==
    \E i \in 0..(Len(hay) - Len(needle)) :
        \A j \in 1..Len(needle) : hay[i + j] = needle[j]

\* ------------------------------------------------------------ frequencies

NOTE_FREQS ==
    [C3 |-> 1308100, D3 |-> 1468300, E3 |-> 1648100, F3 |-> 1746100,
     G3 |-> 1960000, A3 |-> 2200000, B3 |-> 2469400,
     C4 |-> 2616300, D4 |-> 2936600, E4 |-> 3296300, F4 |-> 3492300,
     G4 |-> 3920000, A4 |-> 4400000, B4 |-> 4938800,
     C5 |-> 5232500, D5 |-> 5873300, E5 |-> 6592500, G5 |-> 7839900,
     A5 |-> 8800000]

\* --------------------------------------------------------- style profile

KwDark == <<"d","a","r","k">>
KwCrime == <<"c","r","i","m","e">>
KwSerious == <<"s","e","r","i","o","u","s">>
KwJazz == <<"j","a","z","z">>
KwLofi == <<"l","o","-","f","i">>
KwChill == <<"c","h","i","l","l">>
KwEnergetic == <<"e","n","e","r","g","e","t","i","c">>
KwUpbeat == <<"u","p","b","e","a","t">>
KwPop == <<"p","o","p">>
KwTechno == <<"t","e","c","h","n","o">>
KwElectronic == <<"e","l","e","c","t","r","o","n","i","c">>
KwCyber == <<"c","y","b","e","r">>

DarkProfile ==
    [scale |-> <<NOTE_FREQS.C4, NOTE_FREQS.D4, NOTE_FREQS.F4, NOTE_FREQS.G4, NOTE_FREQS.A4>>,
     wave |-> "sawtooth", bassWave |-> "square", reverbAmount |-> 60]

JazzProfile ==
    [scale |-> <<NOTE_FREQS.C4, NOTE_FREQS.E4, NOTE_FREQS.G4, NOTE_FREQS.A4, NOTE_FREQS.B4>>,
     wave |-> "sine", bassWave |-> "sine", reverbAmount |-> 70]

PopProfile ==
    [scale |-> <<NOTE_FREQS.C4, NOTE_FREQS.D4, NOTE_FREQS.E4, NOTE_FREQS.G4, NOTE_FREQS.A4,
                 NOTE_FREQS.C5>>,
     wave |-> "square", bassWave |-> "sawtooth", reverbAmount |-> 30]

TechnoProfile ==
    [scale |-> <<NOTE_FREQS.C4, NOTE_FREQS.D4, NOTE_FREQS.F4, NOTE_FREQS.G4, NOTE_FREQS.A4>>,
     wave |-> "sawtooth", bassWave |-> "sawtooth", reverbAmount |-> 40]

DefaultProfile ==
    [scale |-> <<NOTE_FREQS.C4, NOTE_FREQS.E4, NOTE_FREQS.G4, NOTE_FREQS.A4, NOTE_FREQS.C5>>,
     wave |-> "sine", bassWave |-> "triangle", reverbAmount |-> 45]

\* Mutant: the techno group is tested before the dark group.
getStyleProfile_TechnoFirst(style, tone) ==
    LET combined == toLowerCase(style \o <<" ">> \o tone) IN
    IF includes(combined, KwTechno) \/ includes(combined, KwElectronic)
       \/ includes(combined, KwCyber)
    THEN TechnoProfile
    ELSE IF includes(combined, KwDark) \/ includes(combined, KwCrime)
            \/ includes(combined, KwSerious)
    THEN DarkProfile
    ELSE IF includes(combined, KwJazz) \/ includes(combined, KwLofi)
            \/ includes(combined, KwChill)
    THEN JazzProfile
    ELSE IF includes(combined, KwEnergetic) \/ includes(combined, KwUpbeat)
            \/ includes(combined, KwPop)
    THEN PopProfile
    ELSE DefaultProfile

\* Mutant: labels without a keyword fall through to the profile of the last
\* group.
getStyleProfile_NoDefault(style, tone) ==
    LET combined == toLowerCase(style \o <<" ">> \o tone) IN
    IF includes(combined, KwDark) \/ includes(combined, KwCrime)
       \/ includes(combined, KwSerious)
    THEN DarkProfile
    ELSE IF includes(combined, KwJazz) \/ includes(combined, KwLofi)
            \/ includes(combined, KwChill)
    THEN JazzProfile
    ELSE IF includes(combined, KwEnergetic) \/ includes(combined, KwUpbeat)
            \/ includes(combined, KwPop)
    THEN PopProfile
    ELSE TechnoProfile

\* reverbAmount is in hundredths.
getStyleProfile(style, tone) ==
    LET combined == toLowerCase(style \o <<" ">> \o tone) IN
    IF includes(combined, KwDark) \/ includes(combined, KwCrime)
       \/ includes(combined, KwSerious)
    THEN DarkProfile
    ELSE IF includes(combined, KwJazz) \/ includes(combined, KwLofi)
            \/ includes(combined, KwChill)
    THEN JazzProfile
    ELSE IF includes(combined, KwEnergetic) \/ includes(combined, KwUpbeat)
            \/ includes(combined, KwPop)
    THEN PopProfile
    ELSE IF includes(combined, KwTechno) \/ includes(combined, KwElectronic)
            \/ includes(combined, KwCyber)
    THEN TechnoProfile
    ELSE DefaultProfile

\* ------------------------------------------------------------ arrangement

\* The k-th Math.random() result (k = 0, 1, ...) of the draws rnd, which
\* recur cyclically.
Draw(rnd, k) == rnd[(k % Len(rnd)) + 1]

\* The <<durationMs, bpm>> with a whole number of milliseconds up to 60 s and a
\* whole tempo up to 400 at which durationSeconds / (beatDuration * 4) is a
\* whole number of bars in exact arithmetic and falls just below it in
\* double precision (2.9999999999999996 for 4.8 s at 150 bpm).  So does
\* durationSeconds / (240 / bpm).  At no such duration and tempo does the
\* quotient in double precision reach a whole number the exact one is below.
BarsRoundedDown ==
    {<<2400, 300>>, <<4800, 150>>, <<4800, 300>>, <<5600, 300>>, <<9600, 75>>, <<9600, 150>>,
     <<9600, 300>>, <<9600, 325>>, <<11200, 150>>, <<11200, 300>>, <<15200, 300>>,
     <<18400, 300>>, <<18560, 375>>, <<19200, 75>>, <<19200, 150>>, <<19200, 300>>,
     <<19200, 325>>, <<20000, 348>>, <<22400, 75>>, <<22400, 150>>, <<22400, 300>>,
     <<23200, 300>>, <<26400, 300>>, <<30000, 232>>, <<30080, 375>>, <<30400, 150>>,
     <<30400, 300>>, <<32800, 300>>, <<34400, 300>>, <<36480, 375>>, <<36800, 150>>,
     <<36800, 300>>, <<37120, 375>>, <<37760, 375>>, <<38400, 75>>, <<38400, 150>>,
     <<38400, 300>>, <<38400, 325>>, <<40000, 174>>, <<40000, 318>>, <<40000, 348>>,
     <<40800, 300>>, <<42400, 300>>, <<44800, 75>>, <<44800, 150>>, <<44800, 300>>,
     <<46400, 150>>, <<46400, 300>>, <<48000, 295>>, <<48800, 300>>, <<50400, 300>>,
     <<52800, 150>>, <<52800, 300>>, <<56800, 300>>, <<60000, 116>>, <<60000, 232>>}

\* bars = Math.floor(durationSeconds / (beatDuration * 4)), beatDuration = 60 / bpm,
\* for a whole number of milliseconds up to 60 s and a whole tempo from 0 to 400.
\* bpm = 0 gives beatDuration = Infinity and 0 bars.
Bars(bpm, durationMs) ==
    IF bpm = 0 THEN 0
    ELSE IF <<durationMs, bpm>> \in BarsRoundedDown
    THEN (durationMs * bpm) \div 240000 - 1
    ELSE (durationMs * bpm) \div 240000

\* Melody line: beats i .. n-1 (beat i is beat i % 4 of bar i \div 4), with the
\* next random draw being the k-th.  Returns the notes and the draws used.
RECURSIVE MelodyLine(_, _, _, _, _)
MelodyLine(i, n, k, profile, rnd) ==
    IF i >= n THEN [ev |-> <<>>, k |-> k]
    ELSE IF Draw(rnd, k) < 70
    THEN LET noteIdx == (Draw(rnd, k + 1) * Len(profile.scale)) \div 100
             note == [kind |-> "melody",
                      time |-> 400 * (i \div 4) + 100 * (i % 4),
                      freq |-> profile.scale[noteIdx + 1],
                      duration |-> (100 * (IF Draw(rnd, k + 2) < 30 THEN 2 ELSE 1) * 9) \div 10,
                      wave |-> profile.wave,
                      gain |-> 1800 + 6 * Draw(rnd, k + 3),
                      detune |-> 0]
             rest == MelodyLine(i + 1, n, k + 4, profile, rnd)
         IN [ev |-> <<note>> \o rest.ev, k |-> rest.k]
    ELSE MelodyLine(i + 1, n, k + 1, profile, rnd)

\* root-third-root-fifth pattern
BassPattern == <<0, 2, 0, 3>>

\* Mutant: the bass line is not transposed down.
BassLine_NoOctave(bars, profile) ==
    [i \in 1..(4 * bars) |->
        [kind |-> "bass",
         time |-> 400 * ((i - 1) \div 4) + 100 * ((i - 1) % 4),
         freq |-> profile.scale[(BassPattern[((i - 1) % 4) + 1] % Len(profile.scale)) + 1],
         duration |-> 85,
         wave |-> profile.bassWave,
         gain |-> 2200,
         detune |-> 0]]

\* Bass line: one note on each beat of each bar, one octave down.
BassLine(bars, profile) ==
    LET bassScale == [j \in 1..Len(profile.scale) |-> profile.scale[j] \div 2] IN
    [i \in 1..(4 * bars) |->
        [kind |-> "bass",
         time |-> 400 * ((i - 1) \div 4) + 100 * ((i - 1) % 4),
         freq |-> bassScale[(BassPattern[((i - 1) % 4) + 1] % Len(bassScale)) + 1],
         duration |-> 85,
         wave |-> profile.bassWave,
         gain |-> 2200,
         detune |-> 0]]

\* Mutant: the chord of a bar is scheduled at the end of the bar.
ChordPad_EndOfBar(bars, profile, rnd, k) ==
    [i \in 1..(3 * bars) |->
        [kind |-> "pad",
         time |-> 400 * (((i - 1) \div 3) + 1),
         freq |-> profile.scale[1],
         duration |-> 380,
         wave |-> "sine",
         gain |-> 600,
         detune |-> 6 * Draw(rnd, k + i - 1) - 300]]

\* Chord pad: three sine notes per bar at the root, root * 1.25 and root * 1.5,
\* each with its own detune draw (the k-th draw onwards).
ChordPad(bars, profile, rnd, k) ==
    LET chordRoot == profile.scale[1]
        freqs == <<chordRoot, (chordRoot * 5) \div 4, (chordRoot * 3) \div 2>>
    IN [i \in 1..(3 * bars) |->
        [kind |-> "pad",
         time |-> 400 * ((i - 1) \div 3),
         freq |-> freqs[((i - 1) % 3) + 1],
         duration |-> 380,
         wave |-> "sine",
         gain |-> 600,
         detune |-> 6 * Draw(rnd, k + i - 1) - 300]]

\* Mutant: the first hi-hat of the bar is the open one.
DrumBar_OpenFirst(bar) ==
    <<[kind |-> "kick", time |-> 400 * bar + 0, open |-> FALSE],
      [kind |-> "kick", time |-> 400 * bar + 200, open |-> FALSE],
      [kind |-> "snare", time |-> 400 * bar + 100, open |-> FALSE],
      [kind |-> "snare", time |-> 400 * bar + 300, open |-> FALSE]>>
    \o [i \in 1..8 |->
          [kind |-> "hihat", time |-> 400 * bar + (i - 1) * 50, open |-> (i - 1 = 0)]]

\* The twelve drum triggers of one bar, in the order they are scheduled.
DrumBar(bar) ==
    <<[kind |-> "kick", time |-> 400 * bar + 0, open |-> FALSE],
      [kind |-> "kick", time |-> 400 * bar + 200, open |-> FALSE],
      [kind |-> "snare", time |-> 400 * bar + 100, open |-> FALSE],
      [kind |-> "snare", time |-> 400 * bar + 300, open |-> FALSE]>>
    \o [i \in 1..8 |->
          [kind |-> "hihat", time |-> 400 * bar + (i - 1) * 50, open |-> (i - 1 = 7)]]

Drums(bars) ==
    [i \in 1..(12 * bars) |-> DrumBar((i - 1) \div 12)[((i - 1) % 12) + 1]]

\* Everything playJingle hands to the voice scheduler and the percussion
\* synthesizers, in submission order.
Arrangement(bpm, profile, durationMs, rnd) ==
    LET bars == Bars(bpm, durationMs)
        melody == MelodyLine(0, 4 * bars, 0, profile, rnd)
    IN melody.ev \o BassLine(bars, profile) \o ChordPad(bars, profile, rnd, melody.k)
       \o Drums(bars)

\* masterGain.gain.setValueAtTime(0.75, ctx.currentTime + durationSeconds - 1.5)
\* raises a RangeError when the time is negative.
FadeThrows(currentTime, durationMs) == currentTime + durationMs - FadeMs < 0

\* The fade-out of the master bus and of the drum bus.
FadeOut(durationMs) ==
    <<[kind |-> "fade", bus |-> "master", from |-> durationMs - FadeMs, to |-> durationMs],
      [kind |-> "fade", bus |-> "drum", from |-> durationMs - FadeMs, to |-> durationMs]>>

\* The lengths of a whole number of milliseconds up to 60 s at which
\* durationSeconds * 1000 + 200 falls just below its whole number in double
\* precision (16201.999999999998 for 16.002 s).  At no such length does it
\* exceed it by a whole millisecond.
DelayRoundedDown ==
    {16002, 16005, 16016, 16019, 16022, 16025, 16028, 16031, 16034, 16037, 16048, 16051, 16054,
     16057, 16060, 16063, 16066, 16069, 16080, 16083, 16086, 16089, 16092, 16095, 16098, 16112,
     16115, 16118, 16121, 16124, 16127, 16130, 16141, 16144, 16147, 16150, 16153, 16156, 16159,
     16162, 16173, 16176, 16179, 16182, 32001, 32004, 32007, 32010, 32013, 32032, 32035, 32038,
     32041, 32044, 32047, 32050, 32053, 32056, 32059, 32062, 32065, 32068, 32071, 32074, 32096,
     32099, 32102, 32105, 32108, 32111, 32114, 32117, 32120, 32123, 32126, 32129, 32132, 32135,
     32138, 32157, 32160, 32163, 32166, 32169, 32172, 32175, 32178, 32181, 32184, 32187, 32190,
     32193, 32196, 32199, 32221, 32224, 32227, 32230, 32233, 32236, 32239, 32242, 32245, 32248,
     32251, 32254, 32257, 32260, 32263, 32282, 32285, 32288, 32291, 32294, 32297, 32300, 32303,
     32306, 32309, 32312, 32315, 32318, 32321, 32324, 32346, 32349, 32352, 32355, 32358, 32361,
     32364, 32367, 32370, 32373, 32376, 32379, 32382, 32385, 32388, 32407, 32410, 32413, 32416,
     32419, 32422, 32425, 32428, 32431, 32434, 32437, 32440, 32443, 32446, 32449, 32471, 32474,
     32477, 32480, 32483, 32486, 32489, 32492, 32495, 32498, 32501, 32504, 32507, 32510, 32513,
     32532, 32535, 32538, 32541, 32544, 32547, 32550, 32553, 32556, 32559, 32562, 32565, 32568}

\* The delay of the completion timer, ms: setTimeout drops the fraction of
\* durationSeconds * 1000 + 200.
CompletionDelay(durationMs) ==
    IF durationMs \in DelayRoundedDown
    THEN durationMs + GraceMs - 1
    ELSE durationMs + GraceMs

\* ------------------------------------------------- waveform visualization

Max(a, b) == IF a > b THEN a ELSE b

Abs(x) == IF x < 0 THEN -x ELSE x

\* Math.PI in 1/100 radian.
Pi100 == 314

\* Math.PI in 1/10000 radian, and 2 * Math.PI in 1/1000000 radian.
Pi10000 == 31416

TwoPiMicro == 6283185

\* The sine, in thousandths, of y in [0, pi], y in 1/10000 radian, by
\* Bhaskara's approximation 16 y (pi - y) / (5 pi^2 - 4 y (pi - y)).
SinHalfTurn(y) ==
    LET q == (y * (Pi10000 - y)) \div 10000
    IN (16000 * q) \div (5 * ((Pi10000 * Pi10000) \div 10000) - 4 * q)

\* Math.sin(x) in thousandths, x in 1/100 radian: an approximation within
\* 0.003 for x up to 214748 (above, 10000 * x is no 32-bit integer).
Sin(x) ==
    LET r == Min(((x * 10000) % TwoPiMicro) \div 100, 2 * Pi10000)
    IN IF r <= Pi10000 THEN SinHalfTurn(r) ELSE -SinHalfTurn(r - Pi10000)

\* Mutant: the samples have no floor.
generateWaveformData_NoFloor(bpm100, bars, rnd) ==
    [j \in 1..bars |->
        LET beatPhase == ((j - 1) * 2 * Pi100 * bpm100) \div (bars * 6000)
            val == Abs((5 * Sin((beatPhase * 7) \div 10)
                          + 3 * Sin((beatPhase * 13) \div 10)) \div 10
                       + 2 * Draw(rnd, j - 1))
        IN Min(1000, val)]

\* generateWaveformData(bpm, bars): bpm100 is the tempo in hundredths (the page
\* passes fractional tempos) and rnd the Math.random() results, one per sample.
generateWaveformData(bpm100, bars, rnd) ==
    [j \in 1..bars |->
        LET beatPhase == ((j - 1) * 2 * Pi100 * bpm100) \div (bars * 6000)
            val == Abs((5 * Sin((beatPhase * 7) \div 10)
                          + 3 * Sin((beatPhase * 13) \div 10)) \div 10
                       + 2 * Draw(rnd, j - 1))
        IN Min(1000, Max(80, val))]

\* ------------------------------------------------------ generation request

\* The bpm member of a parsed model response: absent, null, a number (v in
\* tenths), a numeric string (v in tenths), another string, or a number too
\* large for a double (1e999).
Absent == [t |-> "absent", v |-> 0]

JsonNull == [t |-> "null", v |-> 0]

JsonNumber(v) == [t |-> "number", v |-> v]

JsonNumericString(v) == [t |-> "numeric string", v |-> v]

JsonText == [t |-> "text", v |-> 0]

JsonHuge == [t |-> "huge", v |-> 0]

\* Number(x): a finite number in tenths, NaN or Infinity.
Number(x) ==
    CASE x.t \in {"number", "numeric string"} -> [kind |-> "finite", v |-> x.v]
      [] x.t = "null" -> [kind |-> "finite", v |-> 0]
      [] x.t = "huge" -> [kind |-> "Infinity", v |-> 0]
      [] OTHER -> [kind |-> "NaN", v |-> 0]

\* n || 120: NaN and 0 are falsy.
OrDefaultBpm(n) ==
    IF n.kind = "NaN" \/ (n.kind = "finite" /\ n.v = 0)
    THEN [kind |-> "finite", v |-> 1200]
    ELSE n

\* Math.round of a number in tenths: the nearest integer, halves rounded up.
Round(n) == IF n.kind = "finite" THEN [n EXCEPT !.v = ((n.v + 5) \div 10) * 10] ELSE n

\* Math.min(180, n) and Math.max(60, n), the results in tenths.
Min180(n) == IF n.kind = "finite" THEN Min(1800, n.v) ELSE 1800

\* Mutant: the tempo is only clamped from above.
ClampBpm_NoLower(x) == Min180(Round(OrDefaultBpm(Number(x))))

\* Math.max(60, Math.min(180, Math.round(Number(parsed.bpm) || 120))), in tenths.
ClampBpm(x) == Max(600, Min180(Round(OrDefaultBpm(Number(x)))))

\* ------------------------------------------------------- playback controller

\* What the last handler run did: op is "init", "play", "stop", "tick", "timer"
\* or "time"; sess the session it belongs to (0 when none); prevActive the value
\* of activeCtx when it began; cb whether it invoked onTimeUpdate, and with
\* which (elapsed, total).
Last(op, sess, prevActive, cb, elapsed, total) ==
    [op |-> op, sess |-> sess, prevActive |-> prevActive,
     cb |-> cb, elapsed |-> elapsed, total |-> total]

\* AudioContext.close() on context c, called by "stopAudio" (from the page or
\* at the head of playJingle) or by the completion "timer".
Close(ss, c, by) ==
    [ss EXCEPT ![c].state = "closed", ![c].closeCalls = @ + 1, ![c].tornBy = by]

\* Mutant: stopAudio() that forgets to close the context.
StopAudioCtxs_NoClose(ss, act) == ss

\* stopAudio(): the contexts after the call.
StopAudioCtxs(ss, act) == IF act # NULL THEN Close(ss, act, "stopAudio") ELSE ss

\* Mutant: stopAudio() that closes the context and keeps the reference.
StopAudioActive_Keep(act) == act

\* stopAudio(): the active reference after the call.
StopAudioActive(act) == NULL

\* Mutant: the fade-out is scheduled before the notes and drums.
SubmissionLog_FadeFirst(notes, durationMs, hasCb) ==
    FadeOut(durationMs) \o notes
          \o (IF hasCb THEN <<[kind |-> "notifier", period |-> TickMs]>> ELSE <<>>)
          \o <<[kind |-> "timer", delay |-> CompletionDelay(durationMs)]>>

\* Everything one playJingle call submits, in order: the notes and drum
\* triggers, the fade-out, the progress notifier (setInterval, only with a
\* callback) and the completion timer (setTimeout).
SubmissionLog(notes, durationMs, hasCb) ==
    notes \o FadeOut(durationMs)
          \o (IF hasCb THEN <<[kind |-> "notifier", period |-> TickMs]>> ELSE <<>>)
          \o <<[kind |-> "timer", delay |-> CompletionDelay(durationMs)]>>

\* The profile of a call that never resolved one.
NoProfile == [scale |-> <<>>, wave |-> "none", bassWave |-> "none", reverbAmount |-> 0]

\* The session record of a playJingle call whose AudioContext constructor
\* threw: the call ends before it reads its parameters.
CtorFailedSession ==
    [outcome |-> "ctorFailed", bpm |-> 0, musicalStyle |-> <<>>, tone |-> <<>>,
     profile |-> NoProfile,
     state |-> "none", closeCalls |-> 0, tornBy |-> "none",
     currentTime |-> 0, durationMs |-> 0, age |-> 0,
     interval |-> "none", timer |-> "none", timerDelay |-> 0,
     promise |-> "rejected", lastElapsed |-> -1, log |-> <<>>]

\* The session record of a playJingle call whose context was created in state
\* ctor ("running", or "suspended" when the browser does not let it start).
\* The fade-out throws when its start time is negative; otherwise the progress
\* notifier is started (if there is a callback) and the completion timer armed.
\* bpm, musicalStyle and tone are the call's parameters and profile the style
\* profile resolved from them.  age is the time since the call; lastElapsed the elapsed value of the live
\* notifier's latest report (-1 when there is none).
NewSession(bpm, musicalStyle, tone, durationMs, hasCb, ctor, rnd) ==
    LET profile == getStyleProfile(musicalStyle, tone)
        notes == Arrangement(bpm, profile, durationMs, rnd)
    IN IF FadeThrows(0, durationMs)
       THEN [outcome |-> "setupFailed", bpm |-> bpm, musicalStyle |-> musicalStyle,
             tone |-> tone, profile |-> profile,
             state |-> ctor, closeCalls |-> 0, tornBy |-> "none",
             currentTime |-> 0, durationMs |-> durationMs, age |-> 0,
             interval |-> "none", timer |-> "none", timerDelay |-> 0,
             promise |-> "rejected", lastElapsed |-> -1, log |-> notes]
       ELSE [outcome |-> "ok", bpm |-> bpm, musicalStyle |-> musicalStyle,
             tone |-> tone, profile |-> profile,
             state |-> ctor, closeCalls |-> 0, tornBy |-> "none",
             currentTime |-> 0, durationMs |-> durationMs, age |-> 0,
             interval |-> IF hasCb THEN "on" ELSE "none",
             timer |-> "armed", timerDelay |-> CompletionDelay(durationMs),
             promise |-> "pending", lastElapsed |-> -1,
             log |-> SubmissionLog(notes, durationMs, hasCb)]

\* Mutant: the active reference is set before the context is constructed.
ActiveAfterPlay_Early(ctor, id) == id

\* activeCtx after a playJingle call that created session id.
ActiveAfterPlay(ctor, id) == IF ctor = "throws" THEN NULL ELSE id

\* playJingle(params), up to the return of its promise.
PlayJingleCall(bpm, musicalStyle, tone, durationMs, hasCb, ctor, rnd, maxCalls) ==
    /\ Len(sessions) < maxCalls
    /\ LET id == Len(sessions) + 1
           stopped == StopAudioCtxs(sessions, activeCtx)
       IN /\ sessions' = Append(stopped,
                  IF ctor = "throws"
                  THEN CtorFailedSession
                  ELSE NewSession(bpm, musicalStyle, tone, durationMs, hasCb, ctor, rnd))
          /\ activeCtx' = ActiveAfterPlay(ctor, id)
          /\ last' = Last("play", id, activeCtx, FALSE, 0, 0)

\* playJingle called with a callback that leaves the page alone.
PlayJingle(bpm, musicalStyle, tone, durationMs, hasCb, ctor, rnd, maxCalls) ==
    /\ PlayJingleCall(bpm, musicalStyle, tone, durationMs, hasCb, ctor, rnd, maxCalls)
    /\ UNCHANGED page

\* stopAudio().
StopAudioCall ==
    /\ sessions' = StopAudioCtxs(sessions, activeCtx)
    /\ activeCtx' = StopAudioActive(activeCtx)
    /\ last' = Last("stop", 0, activeCtx, FALSE, 0, 0)

\* stopAudio() called on its own.
StopAudio == StopAudioCall /\ UNCHANGED page

\* Mutant: the notifier never finds the session gone.
NotifierDetached_Never(ss, act) == FALSE

\* The notifier's test for "the session is gone":
\* !activeCtx || activeCtx.state === 'closed'.
NotifierDetached(ss, act) == act = NULL \/ ss[act].state = "closed"

\* Mutant: the elapsed value is reported without the clamp.
ReportedElapsed_NoMin(elapsed, durationMs) == elapsed

\* The elapsed value handed to onTimeUpdate: Math.min(elapsed, durationSeconds).
ReportedElapsed(elapsed, durationMs) == Min(elapsed, durationMs)

\* Whether the notifier clears itself after a report.
NotifierDone(elapsed, durationMs) == elapsed >= durationMs

\* One firing of session s's setInterval callback, at least TickMs after the call.
IntervalTickCall(s) ==
    /\ s \in 1..Len(sessions)
    /\ sessions[s].interval = "on"
    /\ sessions[s].age >= TickMs
    /\ IF NotifierDetached(sessions, activeCtx)
       THEN /\ sessions' = [sessions EXCEPT ![s].interval = "cleared",
                                            ![s].lastElapsed = -1]
            /\ last' = Last("tick", s, activeCtx, FALSE, 0, 0)
       ELSE LET elapsed == sessions[s].currentTime
                total == sessions[s].durationMs
            IN /\ sessions' = [sessions EXCEPT
                      ![s].lastElapsed = IF NotifierDone(elapsed, total) THEN -1
                                         ELSE ReportedElapsed(elapsed, total),
                      ![s].interval = IF NotifierDone(elapsed, total) THEN "cleared" ELSE @]
               /\ last' = Last("tick", s, activeCtx, TRUE,
                               ReportedElapsed(elapsed, total), total)
    /\ UNCHANGED activeCtx

\* The tick of a session whose callback leaves the page alone.
IntervalTick(s) == IntervalTickCall(s) /\ UNCHANGED page

\* Mutant: the timer tears down whenever some context is active.
TimerOwns_AnyActive(act, s) == act # NULL

\* Mutant: the timer tears down unconditionally.
TimerOwns_Always(act, s) == TRUE

\* Mutant: the timer never tears down.
TimerOwns_Never(act, s) == FALSE

\* The completion timer's test "this session is still the active one".
TimerOwns(act, s) == act = s

\* Mutant: the promise is resolved only by the timer of the active session.
CompletionTimerCall_ResolveOwnerOnly(s) ==
    /\ s \in 1..Len(sessions)
    /\ sessions[s].timer = "armed"
    /\ sessions[s].age >= sessions[s].timerDelay
    /\ LET closed == IF TimerOwns(activeCtx, s) THEN Close(sessions, s, "timer")
                     ELSE sessions
       IN sessions' = [closed EXCEPT ![s].timer = "fired",
                                     ![s].promise = IF TimerOwns(activeCtx, s)
                                                    THEN "resolved" ELSE @]
    /\ activeCtx' = IF TimerOwns(activeCtx, s) THEN NULL ELSE activeCtx
    /\ last' = Last("timer", s, activeCtx, FALSE, 0, 0)

\* The firing of session s's completion timer (setTimeout callback), at least
\* timerDelay after the call.
CompletionTimerCall(s) ==
    /\ s \in 1..Len(sessions)
    /\ sessions[s].timer = "armed"
    /\ sessions[s].age >= sessions[s].timerDelay
    /\ LET closed == IF TimerOwns(activeCtx, s) THEN Close(sessions, s, "timer")
                     ELSE sessions
       IN sessions' = [closed EXCEPT ![s].timer = "fired", ![s].promise = "resolved"]
    /\ activeCtx' = IF TimerOwns(activeCtx, s) THEN NULL ELSE activeCtx
    /\ last' = Last("timer", s, activeCtx, FALSE, 0, 0)

\* The completion timer of a session whose caller does nothing when the
\* promise resolves.
CompletionTimer(s) == CompletionTimerCall(s) /\ UNCHANGED page

\* AgeCap is the first multiple of dt at which the completion timer of
\* session i, if it has one, is due.
AgeCap(ss, i, dt) == ((ss[i].timerDelay + dt - 1) \div dt) * dt

\* Session i has a timer that is not due yet.
TimerPending(ss, i, dt) ==
    /\ ss[i].timer = "armed" \/ ss[i].interval = "on"
    /\ ss[i].age < AgeCap(ss, i, dt)

\* A time step is counted for session i: its context is running (its audio
\* clock goes on, with or without a timer left), or it has a timer that is
\* not due yet.  The age of a call whose context no longer runs stands for
\* "its timers are due" once it has reached AgeCap.
Ageing(ss, i, dt) == ss[i].state = "running" \/ TimerPending(ss, i, dt)

\* The model follows a step of dt ms: a timer is not due yet, or the step
\* ends no later than ClockSlackMs after the time a running context's timer
\* is due (for a running context without a timer: after its creation).
TimePasses(ss, dt) ==
    \E i \in 1..Len(ss) :
        \/ TimerPending(ss, i, dt)
        \/ /\ ss[i].state = "running"
           /\ ss[i].age + dt <= AgeCap(ss, i, dt) + ClockSlackMs

\* dt ms pass.  The time since each call grows; the audio clock of a running
\* context advances in every step, also when the call has no timer left or
\* its timer is overdue; that of a suspended or closed context stands still.
AdvanceTime(dt) ==
    /\ TimePasses(sessions, dt)
    /\ sessions' = [i \in 1..Len(sessions) |->
                      IF Ageing(sessions, i, dt)
                      THEN [sessions[i] EXCEPT
                              !.age = @ + dt,
                              !.currentTime = IF sessions[i].state = "running"
                                              THEN @ + dt ELSE @]
                      ELSE sessions[i]]
    /\ last' = Last("time", 0, activeCtx, FALSE, 0, 0)
    /\ UNCHANGED <<activeCtx, page>>

\* ------------------------------------------------- generation request: text

\* U+2026, the ellipsis truncateName appends: one character.
Ellipsis == "U+2026"

\* The characters sanitize removes.
StrippedChars == {"<", ">", "{", "}", "|", "\\", "^", Backtick, "[", "]"}

\* White space, as String.prototype.trim sees it: ECMAScript's WhiteSpace
\* (tab, U+000B, U+000C, U+FEFF and the space separators of Unicode) and
\* LineTerminator (line feed, U+000D, U+2028, U+2029).
WhiteSpace ==
    {"\t", "\n", "U+000B", "U+000C", "U+000D", " ", "U+00A0", "U+1680",
     "U+2000", "U+2001", "U+2002", "U+2003", "U+2004", "U+2005", "U+2006", "U+2007",
     "U+2008", "U+2009", "U+200A", "U+2028", "U+2029", "U+202F", "U+205F", "U+3000",
     "U+FEFF"}

RECURSIVE trimStart(_)
\* String.prototype.trimStart.
trimStart(s) ==
    IF s # <<>> /\ Head(s) \in WhiteSpace THEN trimStart(Tail(s)) ELSE s

RECURSIVE trimEnd(_)
\* String.prototype.trimEnd.
trimEnd(s) ==
    IF s # <<>> /\ s[Len(s)] \in WhiteSpace THEN trimEnd(SubSeq(s, 1, Len(s) - 1)) ELSE s

\* String.prototype.trim.
trim(s) == trimEnd(trimStart(s))

\* String.prototype.slice(0, end) and Array.prototype.slice(0, end), end >= 0.
slice(s, end) == SubSeq(s, 1, Min(end, Len(s)))

\* The length sanitize cuts its result to.
SanitizeMaxLen == 200

\* The character c is kept by sanitize.
Kept(c) == c \notin StrippedChars

\* sanitize: strip the dangerous characters, trim, cut to 200 characters.
sanitize(str) == slice(trim(SelectSeq(str, Kept)), SanitizeMaxLen)

\* The default maxLen of truncateName.
NameMaxLen == 30

\* truncateName: the sanitized name, cut to maxLen characters, trailing white
\* space removed and an ellipsis appended, when it is longer than maxLen.
truncateName(name, maxLen) ==
    LET clean == sanitize(name)
    IN IF Len(clean) > maxLen
       THEN Append(trimEnd(slice(clean, maxLen)), Ellipsis)
       ELSE clean

\* The safety filter's word list.
BLOCKED_TERMS ==
    << <<"h","a","t","e">>,
       <<"v","i","o","l","e","n","c","e">>,
       <<"r","a","c","i","s","t">>,
       <<"s","e","x","i","s","t">>,
       <<"e","x","p","l","i","c","i","t">>,
       <<"a","d","u","l","t">>,
       <<"n","s","f","w">>,
       <<"g","o","r","e">>,
       <<"k","i","l","l">>,
       <<"m","u","r","d","e","r">>,
       <<"a","b","u","s","e">>,
       <<"d","r","u","g">>,
       <<"t","e","r","r","o","r">>,
       <<"e","x","t","r","e","m","i">> >>

\* Mutant: the filter compares the input as typed, without lower-casing it.
safetyCheck_CaseSensitive(input) ==
    ~\E i \in 1..Len(BLOCKED_TERMS) : includes(input, BLOCKED_TERMS[i])

\* safetyCheck: TRUE when the lower-cased input contains no blocked term.
safetyCheck(input) ==
    LET normalized == toLowerCase(input)
    IN ~\E i \in 1..Len(BLOCKED_TERMS) : includes(normalized, BLOCKED_TERMS[i])

\* JavaScript's a || b on strings: b when a is empty.
OrElse(a, b) == IF a = <<>> THEN b ELSE a

\* The defaults generateJingle (and the page) put in place of empty inputs.
StrMyPodcast == <<"M","y"," ","P","o","d","c","a","s","t">>

StrGenericProfessional == <<"G","e","n","e","r","i","c"," ","P","r","o","f","e","s","s","i","o","n","a","l">>

StrProfessional == <<"P","r","o","f","e","s","s","i","o","n","a","l">>

\* String.prototype.startsWith.
startsWith(s, prefix) ==
    Len(prefix) <= Len(s) /\ SubSeq(s, 1, Len(prefix)) = prefix

\* s has pattern at offset k.
OccursAt(s, pattern, k) ==
    /\ k + Len(pattern) <= Len(s)
    /\ \A j \in 1..Len(pattern) : s[k + j] = pattern[j]

\* String.prototype.replace with a string for a pattern and a replacement
\* without "$": the first occurrence of pattern is replaced.
replace(s, pattern, by) ==
    IF includes(s, pattern)
    THEN LET k == CHOOSE k \in 0..(Len(s) - Len(pattern)) :
                      /\ OccursAt(s, pattern, k)
                      /\ \A h \in 0..(k - 1) : ~OccursAt(s, pattern, h)
         IN SubSeq(s, 1, k) \o by \o SubSeq(s, k + Len(pattern) + 1, Len(s))
    ELSE s

\* The messages of the errors generateJingle throws.
\* The message of the error thrown without an API key.
StrNoKeyMessage ==
    <<"G","e","m","i","n","i"," ","A","P","I"," ","k","e","y"," ","n","o","t"," ","c","o","n",
      "f","i","g","u","r","e","d","."," ","S","e","t"," ","N","E","X","T","_","P","U","B","L",
      "I","C","_","G","E","M","I","N","I","_","A","P","I","_","K","E","Y"," ","i","n"," ",".",
      "e","n","v",".","l","o","c","a","l">>

\* The message of the error thrown when the safety check fails.
StrSafetyMessage ==
    <<"S","A","F","E","T","Y","_","V","I","O","L","A","T","I","O","N",":"," ","Y","o","u","r",
      " ","i","n","p","u","t"," ","c","o","n","t","a","i","n","s"," ","c","o","n","t","e","n",
      "t"," ","t","h","a","t"," ","c","a","n","n","o","t"," ","b","e"," ","p","r","o","c","e",
      "s","s","e","d","."," ","P","l","e","a","s","e"," ","u","s","e"," ","a","p","p","r","o",
      "p","r","i","a","t","e"," ","p","o","d","c","a","s","t"," ","t","o","p","i","c","s",".">>

\* The message of the error thrown for a response that is no JSON, before the
\* first characters of the response.
StrFailedToParse ==
    <<"F","a","i","l","e","d"," ","t","o"," ","p","a","r","s","e"," ","G","e","m","i","n","i",
      " ","r","e","s","p","o","n","s","e"," ","a","s"," ","J","S","O","N","."," ","R","a","w",
      ":"," ">>

\* Number of characters of the response in that message.
RawMaxLen == 200

\* The texts of the catch block of handleGenerate.
\* "SAFETY_VIOLATION"
StrSafetyViolation ==
    <<"S","A","F","E","T","Y","_","V","I","O","L","A","T","I","O","N">>

\* "SAFETY_VIOLATION: "
StrSafetyViolationColon ==
    <<"S","A","F","E","T","Y","_","V","I","O","L","A","T","I","O","N",":"," ">>

\* "API key"
StrApiKey ==
    <<"A","P","I"," ","k","e","y">>

\* "Unknown error occurred"
StrUnknownError ==
    <<"U","n","k","n","o","w","n"," ","e","r","r","o","r"," ","o","c","c","u","r","r","e","d">>

\* U+26A0 and " Safety filter triggered: "
StrSafetyShown ==
    <<"U+26A0"," ","S","a","f","e","t","y"," ","f","i","l","t","e","r"," ","t","r","i","g","g",
      "e","r","e","d",":"," ">>

\* U+1F511 (two code units) and a space
StrKeyShown ==
    <<"U+D83D","U+DD11"," ">>

\* -------------------------------------------------------------------- page

\* Number of samples of the page's waveform.
PageSamples == 48

\* The Math.random() results of the page's waveform.
PageRnd == <<5, 50, 95>>

\* The value null of the page's result.
NoResult ==
    [podcast_name |-> <<>>, theme |-> <<>>, tone |-> <<>>, musical_style |-> <<>>, bpm |-> 0]

\* The input object of generateJingle.
GenerateJingleInput(name, theme, tone) ==
    [podcastName |-> name, theme |-> theme, tone |-> tone]

\* A generateJingle call: its input, whether an API key is configured, how far
\* it got (outcome "none": no call yet; "noKey" and "SAFETY_VIOLATION": it
\* threw that error before any request; "sent": the prompt is with Gemini;
\* "failed": the request or the handling of its response threw; "returned":
\* it returned payload), the three texts of the prompt sent to Gemini, and
\* what the call threw (thrown "none": nothing; "Error": an Error with the
\* message message; "value": a value that is no Error).
NoRequest ==
    [outcome |-> "none", hasKey |-> FALSE,
     input |-> GenerateJingleInput(<<>>, <<>>, <<>>),
     voiceName |-> <<>>, theme |-> <<>>, tone |-> <<>>, payload |-> NoResult,
     thrown |-> "none", message |-> <<>>]

\* generateJingle up to its request to Gemini: the key test, the sanitized
\* inputs with their defaults, the name for the voice-over, the safety check
\* of the three sanitized inputs, and the user prompt.
GenerateJingleRequest(input, hasKey) ==
    LET podcastName == OrElse(sanitize(input.podcastName), StrMyPodcast)
        theme == OrElse(sanitize(input.theme), StrGenericProfessional)
        tone == OrElse(sanitize(input.tone), StrProfessional)
        voiceName == truncateName(podcastName, NameMaxLen)
        combinedInput == podcastName \o <<" ">> \o theme \o <<" ">> \o tone
        call == [NoRequest EXCEPT !.hasKey = hasKey, !.input = input]
    IN IF ~hasKey
       THEN [call EXCEPT !.outcome = "noKey", !.thrown = "Error",
                         !.message = StrNoKeyMessage]
       ELSE IF ~safetyCheck(combinedInput)
            THEN [call EXCEPT !.outcome = "SAFETY_VIOLATION", !.thrown = "Error",
                              !.message = StrSafetyMessage]
            ELSE [call EXCEPT !.outcome = "sent", !.voiceName = voiceName,
                              !.theme = theme, !.tone = tone]

\* The tone chips of the page, in the order shown.
TONES ==
    << <<"E","n","e","r","g","e","t","i","c">>,
       <<"P","r","o","f","e","s","s","i","o","n","a","l">>,
       <<"S","e","r","i","o","u","s">>,
       <<"P","l","a","y","f","u","l">>,
       <<"D","a","r","k">>,
       <<"I","n","s","p","i","r","a","t","i","o","n","a","l">>,
       <<"M","y","s","t","e","r","i","o","u","s">>,
       <<"C","o","m","e","d","i","c">>,
       <<"F","a","s","t","-","p","a","c","e","d">>,
       <<"C","a","l","m">> >>

\* The largest number of tones the page lets the user select.
MaxTones == 4

\* Mutant: the selection is not cut to four tones.
toggleTone_NoSlice(prev, tone) ==
    IF \E i \in 1..Len(prev) : prev[i] = tone
    THEN SelectSeq(prev, LAMBDA t : t # tone)
    ELSE Append(prev, tone)

\* The updater of toggleTone: a selected tone is removed, another one is
\* appended and the selection cut to its first four tones.
toggleTone(prev, tone) ==
    IF \E i \in 1..Len(prev) : prev[i] = tone
    THEN SelectSeq(prev, LAMBDA t : t # tone)
    ELSE slice(Append(prev, tone), MaxTones)

RECURSIVE join(_, _)
\* Array.prototype.join.
join(strs, sep) ==
    IF strs = <<>> THEN <<>>
    ELSE IF Len(strs) = 1 THEN strs[1]
    ELSE strs[1] \o sep \o join(Tail(strs), sep)

\* effectiveTone: the selected tones joined by ", ", or 'Professional'.
effectiveTone(tones) ==
    IF Len(tones) > 0 THEN join(tones, <<",", " ">>) ELSE StrProfessional

\* The page's state: tones (the selected chips), loading, result (NoResult or
\* the payload of the last generation), error (the text shown), isPlaying,
\* audioProgress (in thousandths) and waveData.  chip is the tone chip of the
\* last click on one (none yet: empty), request the last generateJingle call.
\* parsed is the bpm member of the model response the result was made from
\* (Absent when there is no result), and waveReq the
\* arguments of the last generateWaveformData call.
InitialPage ==
    [loading |-> FALSE, result |-> NoResult, isPlaying |-> FALSE, audioProgress |-> 0,
     waveData |-> <<>>, parsed |-> Absent, waveReq |-> [bpm100 |-> 0, bars |-> 0],
     tones |-> <<>>, chip |-> <<>>, error |-> <<>>, request |-> NoRequest]

\* A click on the tone chip tone (the chips are disabled while loading).
ToggleTone(tone) ==
    /\ ~page.loading
    /\ page' = [page EXCEPT !.tones = toggleTone(@, tone), !.chip = tone]
    /\ last' = Last("toggle", 0, activeCtx, FALSE, 0, 0)
    /\ UNCHANGED <<activeCtx, sessions>>

\* The payload generateJingle returns for the call call and a model response
\* with the bpm member x and the style label style; its bpm is in tenths.
Payload(call, x, style) ==
    [podcast_name |-> call.voiceName, theme |-> call.theme, tone |-> call.tone,
     musical_style |-> style, bpm |-> ClampBpm(x)]

\* generateJingle called on its own, up to its request to Gemini.
GenerateJingle(input, hasKey) ==
    /\ ~page.loading /\ page.request.outcome # "sent"
    /\ page' = [page EXCEPT !.request = GenerateJingleRequest(input, hasKey)]
    /\ last' = Last("generate", 0, activeCtx, FALSE, 0, 0)
    /\ UNCHANGED <<activeCtx, sessions>>

\* generateJingle called on its own continues with Gemini's response and
\* returns its payload.
GenerateJingleReturns(x, style) ==
    /\ ~page.loading /\ page.request.outcome = "sent"
    /\ page' = [page EXCEPT !.request.outcome = "returned",
                            !.request.payload = Payload(page.request, x, style)]
    /\ last' = Last("payload", 0, activeCtx, FALSE, 0, 0)
    /\ UNCHANGED <<activeCtx, sessions>>

\* A failure of generateJingle after its prompt was sent.  kind "Error": the
\* request, or the handling of the parsed response, throws an Error with
\* the message text; "value": the request rejects with a value that is no
\* Error; "noJson": Gemini answers text, which JSON.parse refuses.
Failure(kind, text) == [kind |-> kind, text |-> text]

\* The call call fails with failure: what generateJingle throws.
FailedRequest(call, failure) ==
    [call EXCEPT
       !.outcome = "failed",
       !.thrown = IF failure.kind = "value" THEN "value" ELSE "Error",
       !.message = CASE failure.kind = "noJson"
                          -> StrFailedToParse \o slice(trim(failure.text), RawMaxLen)
                     [] failure.kind = "value" -> <<>>
                     [] OTHER -> failure.text]

\* The catch block of handleGenerate: the text it shows for what call threw.
ErrorShown(call) ==
    LET msg == IF call.thrown = "Error" THEN call.message ELSE StrUnknownError
    IN IF startsWith(msg, StrSafetyViolation)
       THEN StrSafetyShown \o replace(msg, StrSafetyViolationColon, <<>>)
       ELSE IF includes(msg, StrApiKey)
            THEN StrKeyShown \o msg
            ELSE msg

\* generateJingle called on its own throws after its prompt was sent.
GenerateJingleThrows(failure) ==
    /\ ~page.loading /\ page.request.outcome = "sent"
    /\ page' = [page EXCEPT !.request = FailedRequest(@, failure)]
    /\ last' = Last("generated", 0, activeCtx, FALSE, 0, 0)
    /\ UNCHANGED <<activeCtx, sessions>>

\* handleGenerate up to the request to the model, with the text of the name
\* field and the effective theme; the page is not loading (the button is
\* disabled while it is).  Without a name there is a toast and nothing else.
GenerateStart(podcastName, effectiveTheme, hasKey) ==
    /\ ~page.loading
    /\ IF trim(podcastName) = <<>>
       THEN /\ last' = Last("toast", 0, activeCtx, FALSE, 0, 0)
            /\ UNCHANGED <<activeCtx, sessions, page>>
       ELSE /\ StopAudioCall
            /\ page' = [page EXCEPT
                          !.loading = TRUE, !.error = <<>>, !.result = NoResult,
                          !.parsed = Absent, !.isPlaying = FALSE, !.audioProgress = 0,
                          !.request = GenerateJingleRequest(
                                          GenerateJingleInput(
                                              trim(podcastName),
                                              OrElse(effectiveTheme, StrGenericProfessional),
                                              effectiveTone(page.tones)),
                                          hasKey)]

\* handleGenerate continues with the payload of generateJingle.
GeneratePayload(x, style) ==
    /\ page.loading /\ page.request.outcome = "sent"
    /\ LET payload == Payload(page.request, x, style)
       IN page' = [page EXCEPT
                     !.request.outcome = "returned",
                     !.request.payload = payload,
                     !.result = payload,
                     !.parsed = x,
                     !.waveData = generateWaveformData(10 * payload.bpm, PageSamples, PageRnd),
                     !.waveReq = [bpm100 |-> 10 * payload.bpm, bars |-> PageSamples]]
    /\ last' = Last("payload", 0, activeCtx, FALSE, 0, 0)
    /\ UNCHANGED <<activeCtx, sessions>>

\* handleGenerate ends with the catch and finally blocks: generateJingle
\* threw after its prompt was sent, and the text for it is shown.
GenerateCatch(failure) ==
    /\ page.loading /\ page.request.outcome = "sent"
    /\ LET call == FailedRequest(page.request, failure)
       IN page' = [page EXCEPT
                     !.loading = FALSE, !.request = call, !.error = ErrorShown(call)]
    /\ last' = Last("generated", 0, activeCtx, FALSE, 0, 0)
    /\ UNCHANGED <<activeCtx, sessions>>

\* handleGenerate ends: generateJingle threw before any request and the
\* catch block shows the text for its error, or the payload was stored.
GenerateFinally ==
    /\ page.loading /\ page.request.outcome # "sent"
    /\ page' = [page EXCEPT
                  !.loading = FALSE,
                  !.error = IF page.request.thrown # "none"
                            THEN ErrorShown(page.request) ELSE @]
    /\ last' = Last("generated", 0, activeCtx, FALSE, 0, 0)
    /\ UNCHANGED <<activeCtx, sessions>>

\* handlePlayStop while playing: stop.
HandleStop ==
    /\ page.result # NoResult /\ page.isPlaying
    /\ StopAudioCall
    /\ page' = [page EXCEPT !.isPlaying = FALSE, !.audioProgress = 0]

\* handlePlayStop while not playing: play the result for 12 s (its tempo is a
\* whole number: see ClampBpm).  When playJingle rejects, the finally block
\* runs at once.
HandlePlay(ctor, maxCalls) ==
    /\ page.result # NoResult /\ ~page.isPlaying
    /\ PlayJingleCall(page.result.bpm \div 10, page.result.musical_style, page.result.tone,
                      DefaultDurationMs, TRUE, ctor, <<50>>, maxCalls)
    /\ page' = [page EXCEPT !.isPlaying = (ctor # "throws"), !.audioProgress = 0]

\* A tick of a session the page started: the callback sets the progress and
\* a new waveform for the tempo result.bpm + Math.sin(elapsed) * 2.
PageIntervalTick(s) ==
    /\ IntervalTickCall(s)
    /\ page' = IF last'.cb
               THEN LET bpm100 == 100 * sessions[s].bpm + Sin(last'.elapsed \div 10) \div 5
                    IN [page EXCEPT
                          !.audioProgress = (1000 * last'.elapsed) \div last'.total,
                          !.waveData = generateWaveformData(bpm100, PageSamples, PageRnd),
                          !.waveReq = [bpm100 |-> bpm100, bars |-> PageSamples]]
               ELSE page

\* The completion timer of a session the page started: the promise resolves
\* and the finally block of its handlePlayStop runs.
PageCompletionTimer(s) ==
    /\ CompletionTimerCall(s)
    /\ page' = [page EXCEPT !.isPlaying = FALSE, !.audioProgress = 0]

\* generateWaveformData called on its own.
GenerateWaveformData(bpm100, bars, rnd) ==
    /\ page' = [page EXCEPT !.waveData = generateWaveformData(bpm100, bars, rnd),
                            !.waveReq = [bpm100 |-> bpm100, bars |-> bars]]
    /\ last' = Last("waveform", 0, activeCtx, FALSE, 0, 0)
    /\ UNCHANGED <<activeCtx, sessions>>

Init ==
    /\ activeCtx = NULL
    /\ sessions = <<>>
    /\ last = Last("init", 0, NULL, FALSE, 0, 0)
    /\ page = InitialPage

\* ------------------------------------------------------------- inputs

StrDarkTechno == <<"D","a","r","k"," ","T","e","c","h","n","o">>

StrSynthPop == <<"S","y","n","t","h"," ","P","o","p">>

StrSerious == <<"S","e","r","i","o","u","s">>

StrDarkIndustrialTechno ==
    <<"D","a","r","k"," ","I","n","d","u","s","t","r","i","a","l"," ","T","e","c","h","n","o">>

StrChillTechno == <<"C","h","i","l","l"," ","T","e","c","h","n","o">>

StrUpbeatJazz == <<"U","p","b","e","a","t"," ","J","a","z","z">>

StrCyberCrime == <<"C","y","b","e","r"," ","C","r","i","m","e">>

StrElectronicPop == <<"E","l","e","c","t","r","o","n","i","c"," ","P","o","p">>

StrLOFI == <<"L","O","-","F","I">>

StrAmbient == <<"A","m","b","i","e","n","t">>

StrDailyTech == <<"D","a","i","l","y"," ","T","e","c","h">>

StrTechnology == <<"T","e","c","h","n","o","l","o","g","y">>

StrEmpty == <<>>

\* Messages of errors of the request to Gemini, and an answer that is no JSON.
StrFetchFailed == <<"f","e","t","c","h"," ","f","a","i","l","e","d">>

StrKeyNotValid ==
    <<"[","4","0","0"," ","B","a","d"," ","R","e","q","u","e","s","t","]"," ","A","P","I"," ","k","e","y"," ","n","o","t"," ","v","a","l","i","d",".">>

StrSafetyByService ==
    <<"S","A","F","E","T","Y","_","V","I","O","L","A","T","I","O","N"," ","b","y"," ","t","h","e"," ","s","e","r","v","i","c","e">>

StrKeyNoAccess ==
    <<"P","l","e","a","s","e"," ","c","h","e","c","k"," ","t","h","a","t"," ","y","o","u","r"," ","A","P","I"," ","k","e","y"," ","h","a","s"," ","a","c","c","e","s","s"," ","t","o"," ","t","h","i","s"," ","m","o","d","e","l",".">>

\* The failures of the generation model: errors whose messages have none,
\* one and the other of the texts the page looks for, an error without a
\* message, a rejection with no Error, and an answer that is no JSON.
GenFailures ==
    {Failure("Error", StrFetchFailed), Failure("Error", StrKeyNotValid),
     Failure("Error", StrSafetyByService), Failure("Error", StrEmpty),
     Failure("value", StrEmpty), Failure("noJson", StrKeyNoAccess)}

\* Granularity of the wall clock of the lifecycle model, ms: half the
\* completion delay of its jingles.
StepMs == CompletionDelay(ShortDurationMs) \div 2

\* Granularity of the wall clock of the arrangement model, ms: the
\* completion delay of a default-length jingle.
ArrStepMs == CompletionDelay(DefaultDurationMs)

\* Lifecycle model: short jingles (the 1 s one fails in the fade-out), one
\* tempo, one stream of random draws; contexts that run, stay suspended, or
\* cannot be created.
Next ==
    \/ \E d \in {TooShortDurationMs, ShortDurationMs}, cb \in BOOLEAN, ctor \in {"running", "suspended", "throws"} :
          PlayJingle(120, StrDarkTechno, StrProfessional, d, cb, ctor, <<50>>, MaxSessions)
    \/ StopAudio
    \/ \E s \in 1..MaxSessions : IntervalTick(s)
    \/ \E s \in 1..MaxSessions : CompletionTimer(s)
    \/ AdvanceTime(StepMs)

Spec == Init /\ [][Next]_vars

\* Length of a jingle whose completion delay falls below a whole number of
\* milliseconds in double precision, ms.
DriftDurationMs == 16 * 1000 + 2

\* Granularity of the wall clock of the delay model, ms: the completion
\* delay of its jingles.
DelayStepMs == CompletionDelay(DriftDurationMs)

\* Delay model: jingles of 16.002 s that run to their end, are stopped or
\* superseded.
NextDelay ==
    \/ \E cb \in BOOLEAN :
          PlayJingle(120, StrDarkTechno, StrProfessional, DriftDurationMs, cb, "running",
                     <<50>>, MaxSessions)
    \/ StopAudio
    \/ \E s \in 1..MaxSessions : IntervalTick(s)
    \/ \E s \in 1..MaxSessions : CompletionTimer(s)
    \/ AdvanceTime(DelayStepMs)

SpecDelay == Init /\ [][NextDelay]_vars

\* Granularity of the wall clock of the fair lifecycle model, ms: the
\* completion delay of its jingles.
FairStepMs == CompletionDelay(ShortDurationMs)

\* Fair lifecycle model: the calls of the lifecycle model, with a coarser clock.
NextFair ==
    \/ \E d \in {TooShortDurationMs, ShortDurationMs}, cb \in BOOLEAN, ctor \in {"running", "suspended", "throws"} :
          PlayJingle(120, StrDarkTechno, StrProfessional, d, cb, ctor, <<50>>, MaxSessions)
    \/ StopAudio
    \/ \E s \in 1..MaxSessions : IntervalTick(s)
    \/ \E s \in 1..MaxSessions : CompletionTimer(s)
    \/ AdvanceTime(FairStepMs)

\* The event loop runs every due timer, and time passes.
FairSpec ==
    /\ Init /\ [][NextFair]_vars
    /\ WF_vars(AdvanceTime(FairStepMs))
    /\ \A s \in 1..MaxSessions : WF_vars(CompletionTimer(s))

\* The tempos, lengths, styles and streams of random draws of the arrangement
\* model: a tempo too slow for a single bar, the tempo of the documented
\* example, two tempos above the documented range, one of them with a
\* trailing partial bar, and a length of exactly three bars, of which the
\* quotient in double precision leaves two.  With the draws <<50>> every beat has a melody note of one
\* beat, with <<10>> every beat has a doubled melody note, with <<10, 60, 90>>
\* some beats have none.
ArrInputs ==
    {[bpm |-> 10, durationMs |-> DefaultDurationMs, style |-> StrDarkTechno, rnd |-> <<50>>],
     [bpm |-> 120, durationMs |-> DefaultDurationMs, style |-> StrDarkTechno,
      rnd |-> <<10, 60, 90>>],
     [bpm |-> 120, durationMs |-> DefaultDurationMs, style |-> StrSynthPop, rnd |-> <<10>>],
     [bpm |-> 190, durationMs |-> DefaultDurationMs, style |-> StrSynthPop, rnd |-> <<50>>],
     [bpm |-> 200, durationMs |-> DefaultDurationMs, style |-> StrDarkTechno, rnd |-> <<50>>],
     [bpm |-> 150, durationMs |-> ThreeBarDurationMs, style |-> StrDarkTechno, rnd |-> <<50>>]}

\* Arrangement model: default-length jingles, and one of 4.8 s.
NextArr ==
    \/ \E in \in ArrInputs, cb \in BOOLEAN :
          PlayJingle(in.bpm, in.style, StrProfessional, in.durationMs, cb, "running",
                     in.rnd, ArrMaxSessions)
    \/ StopAudio
    \/ \E s \in 1..ArrMaxSessions : IntervalTick(s)
    \/ \E s \in 1..ArrMaxSessions : CompletionTimer(s)
    \/ AdvanceTime(ArrStepMs)

SpecArr == Init /\ [][NextArr]_vars

\* "DAR" and the Kelvin sign, whose lower case is "k".
StrDarKelvin == <<"D","A","R","U+212A">>

\* "LO-F" and the dotted capital I, whose lower case is "i" and a combining
\* dot above.
StrLoFiDotted == <<"L","O","-","F","U+0130">>

\* The style and tone labels of the style model: labels with keywords of one
\* group, of several groups, of none, in upper case, with capitals outside
\* A-Z, and empty labels.
StyleLabels ==
    {StrDarkIndustrialTechno, StrChillTechno, StrUpbeatJazz, StrCyberCrime,
     StrElectronicPop, StrLOFI, StrAmbient, StrEmpty, StrDarKelvin, StrLoFiDotted}

ToneLabels == {StrProfessional, StrSerious, StrEmpty}

\* Granularity of the wall clock of the style model, ms: the completion
\* delay of its jingles.
StyleStepMs == CompletionDelay(ShortDurationMs)

\* Style model: short jingles of every pair of labels.
NextStyle ==
    \/ \E style \in StyleLabels, tone \in ToneLabels :
          PlayJingle(120, style, tone, ShortDurationMs, FALSE, "running", <<50>>,
                     StyleMaxSessions)
    \/ StopAudio
    \/ \E s \in 1..StyleMaxSessions : CompletionTimer(s)
    \/ AdvanceTime(StyleStepMs)

SpecStyle == Init /\ [][NextStyle]_vars

\* The bpm members of the model responses of the page model: absent, null,
\* no number, 0, 0.4, "90.5", 200 and 1e999.
ParsedBpms ==
    {Absent, JsonNull, JsonText, JsonNumber(0), JsonNumber(4),
     JsonNumericString(905), JsonNumber(2000), JsonHuge}

\* Page model: generations and 12 s playbacks of their results.
NextPage ==
    \/ GenerateStart(StrDailyTech, StrTechnology, TRUE)
    \/ \E x \in ParsedBpms : GeneratePayload(x, StrDarkTechno)
    \/ GenerateCatch(Failure("Error", StrKeyNotValid))
    \/ GenerateFinally
    \/ HandleStop
    \/ \E ctor \in {"running", "throws"} : HandlePlay(ctor, PageMaxSessions)
    \/ \E s \in 1..PageMaxSessions : PageIntervalTick(s)
    \/ \E s \in 1..PageMaxSessions : PageCompletionTimer(s)
    \/ AdvanceTime(ArrStepMs)

SpecPage == Init /\ [][NextPage]_vars

\* Granularity of the wall clock of the play/stop model, ms: half the
\* completion delay of the page's jingles.
ClickStepMs == CompletionDelay(DefaultDurationMs) \div 2

\* Play/stop model: one generation, then clicks on the play/stop button while
\* the timers of the sessions they start run.
NextClicks ==
    \/ GenerateStart(StrDailyTech, StrTechnology, TRUE)
    \/ GeneratePayload(JsonNumber(1200), StrDarkTechno)
    \/ GenerateCatch(Failure("Error", StrFetchFailed))
    \/ GenerateFinally
    \/ HandleStop
    \/ HandlePlay("running", ClickMaxSessions)
    \/ \E s \in 1..ClickMaxSessions : PageIntervalTick(s)
    \/ \E s \in 1..ClickMaxSessions : PageCompletionTimer(s)
    \/ AdvanceTime(ClickStepMs)

SpecClicks == Init /\ [][NextClicks]_vars

\* n times the character c.
Repeat(c, n) == [i \in 1..n |-> c]

StrHateRadio == <<"H","A","T","E"," ","R","a","d","i","o">>

StrKillerBeesMarkup == <<"K","i","<","l","l",">","e","r"," ","B","e","e","s">>

\* 37 characters, the 30th of them a letter.
StrLongName == <<"T","h","e"," ","E","x","t","r","a","o","r","d","i","n","a","r","i","l","y"," ","L","o","n","g"," ","P","o","d","c","a","s","t"," ","S","h","o","w">>

\* 34 characters, the 30th of them a space.
StrLongNameSpace == <<"C","o","n","v","e","r","s","a","t","i","o","n","s"," ","A","b","o","u","t"," ","S","o","m","e","t","h","i","n","g"," ","E","l","s","e">>

\* 30 characters.
StrName30 == <<"C","o","n","v","e","r","s","a","t","i","o","n","s"," ","A","b","o","u","t"," ","E","v","e","r","y","t","h","i","n","g">>

StrDrugPolicy == <<"D","r","u","g"," ","P","o","l","i","c","y">>

\* Two no-break spaces.
StrBlank == <<"U+00A0", "U+00A0">>

\* "Daily Tech" after a no-break space and before an ideographic space.
StrDailyTechPadded == <<"U+00A0">> \o StrDailyTech \o <<"U+3000">>

\* "KILL FM" with the Kelvin sign for its K.
StrKelvinIllFm == <<"U+212A","I","L","L"," ","F","M">>

\* "KILL FM" with the dotted capital I: its lower case has a combining dot
\* between "i" and "l".
StrKillDottedFm == <<"K","U+0130","L","L"," ","F","M">>

\* 202 characters: a blocked term that begins at the 198th.
StrLongTheme == Repeat("a", 197) \o <<"k","i","l","l","!">>

StrDarkNsfw == <<"D","a","r","k",","," ","N","S","F","W">>

\* The podcast names, themes and tones of the generation model.
GenNames ==
    {StrEmpty, StrDailyTech, StrHateRadio, StrKillerBeesMarkup, StrLongName,
     StrLongNameSpace, StrName30}

GenThemes == {StrEmpty, StrTechnology, StrDrugPolicy}

GenTones == {StrEmpty, StrProfessional, StrDarkNsfw}

\* The inputs of the generation model: every combination of these, one with
\* a theme that sanitize cuts, and two with names whose capitals are outside
\* A-Z.
GenInputs ==
    {GenerateJingleInput(n, th, tn) : n \in GenNames, th \in GenThemes, tn \in GenTones}
        \cup {GenerateJingleInput(StrDailyTech, StrLongTheme, StrProfessional),
              GenerateJingleInput(StrKelvinIllFm, StrTechnology, StrProfessional),
              GenerateJingleInput(StrKillDottedFm, StrTechnology, StrProfessional)}

\* The inputs of the calls made without an API key: one harmless, one with a
\* blocked term.
GenNoKeyInputs ==
    {GenerateJingleInput(StrDailyTech, StrTechnology, StrProfessional),
     GenerateJingleInput(StrHateRadio, StrEmpty, StrEmpty)}

\* Generation model: calls of generateJingle, on its own and from the page's
\* handleGenerate, with and without an API key, and what follows Gemini's
\* answer.
NextGen ==
    \/ \E input \in GenInputs : GenerateJingle(input, TRUE)
    \/ \E input \in GenNoKeyInputs : GenerateJingle(input, FALSE)
    \/ \E x \in {Absent, JsonNumber(1200)} : GenerateJingleReturns(x, StrDarkTechno)
    \/ \E failure \in {Failure("Error", StrFetchFailed), Failure("noJson", StrKeyNoAccess)} :
          GenerateJingleThrows(failure)
    \/ \E n \in {StrEmpty, StrBlank, StrDailyTech, StrDailyTechPadded, StrKillerBeesMarkup,
                 StrLongName},
          hasKey \in BOOLEAN :
          GenerateStart(n, StrEmpty, hasKey)
    \/ GeneratePayload(JsonNumber(1200), StrDarkTechno)
    \/ \E failure \in GenFailures : GenerateCatch(failure)
    \/ GenerateFinally

SpecGen == Init /\ [][NextGen]_vars

\* The tone chips of the tone model: the first ChipCount of the page's.
Chips == {TONES[i] : i \in 1..ChipCount}

\* Tone model: clicks on tone chips.
NextTones == \E tone \in Chips : ToggleTone(tone)

SpecTones == Init /\ [][NextTones]_vars

\* Waveform model: generateWaveformData called with several tempos, sample
\* counts and random draws while jingles are played and stopped.
NextWave ==
    \/ \E bpm100 \in {0, 6000, 11987, 20000}, bars \in 0..MaxSamples,
          rnd \in {<<0>>, <<5, 50, 95>>, <<99>>} :
          GenerateWaveformData(bpm100, bars, rnd)
    \/ \E cb \in BOOLEAN :
          PlayJingle(120, StrDarkTechno, StrProfessional, ShortDurationMs, cb, "running",
                     <<50>>, MaxSessions)
    \/ StopAudio

SpecWave == Init /\ [][NextWave]_vars

\* ---------------------------------------------------------------- claims

Ids == 1..Len(sessions)

\* The contexts that were created and on which close() has not been called.
OpenCtxs == {i \in Ids : sessions[i].state \in {"running", "suspended"}}

\* The session's context was closed by stopAudio(): by the page's stop or by
\* a superseding playJingle.
TornDown(i) == sessions[i].state = "closed" /\ sessions[i].tornBy = "stopAudio"

\* C1: at most one output context is open in every reachable state, and a
\* playJingle issued while a session is active has closed that session's
\* context when the new one exists.
C1_MutualExclusion ==
    /\ Cardinality(OpenCtxs) <= 1
    /\ (last.op = "play" /\ last.prevActive # NULL)
          => sessions[last.prevActive].state = "closed"

\* A second playJingle was issued before the first's promise resolved, and
\* both created a context.
C1_Witness ==
    /\ last.op = "play" /\ last.sess = 2 /\ last.prevActive = 1
    /\ sessions[1].promise = "pending" /\ sessions[1].state = "closed"
    /\ sessions[2].state = "running"

\* C2 (as claimed): onTimeUpdate of a session is never invoked once the
\* session was torn down by stopAudio() or superseded by a new playJingle.
C2_NoCallbackAfterTeardown ==
    (last.op = "tick" /\ last.cb) => ~TornDown(last.sess)

\* C3: the completion timer of a session that is no longer the active one
\* changes neither the active reference nor any context's status.
C3_StaleTimerHarmless ==
    [][\A s \in Ids :
          (sessions[s].timer = "armed" /\ sessions'[s].timer = "fired" /\ activeCtx # s)
          => /\ activeCtx' = activeCtx
             /\ \A b \in Ids : /\ sessions'[b].state = sessions[b].state
                               /\ sessions'[b].closeCalls = sessions[b].closeCalls]_vars

\* The timer of session 1 fired after session 2 superseded it, and session 2
\* is still the active, open one.
C3_Witness ==
    /\ last.op = "timer" /\ last.sess = 1 /\ last.prevActive = 2
    /\ TornDown(1) /\ activeCtx = 2 /\ sessions[2].state = "running"

\* C4: close() is called at most once on every context.
C4_TeardownOnce == \A i \in Ids : sessions[i].closeCalls <= 1

\* A session was torn down by stopAudio() and its own completion timer fired
\* afterwards: the second teardown attempt.
C4_Witness ==
    /\ last.op = "timer" /\ last.prevActive # last.sess
    /\ TornDown(last.sess) /\ sessions[last.sess].closeCalls = 1

\* C5: after stopAudio() no session is active, and stopAudio() called with no
\* active session changes nothing, so a second call in a row is a no-op.
C5_StopIdempotent ==
    [][last'.op = "stop"
          => /\ activeCtx' = NULL
             /\ activeCtx = NULL => sessions' = sessions]_vars

\* stopAudio() was called twice in a row after a session had been played: the
\* second call found no active session.
C5_Witness ==
    /\ last.op = "stop" /\ last.prevActive = NULL /\ activeCtx = NULL
    /\ \E i \in Ids : TornDown(i)

\* playJingle has just been called for the n-th time.
JustPlayed(n) == last.op = "play" /\ last.sess = n

\* No playJingle call after the n-th has been made, and stopAudio() was not
\* the last handler run.
NoCallAfter(n) == Len(sessions) = n /\ last.op # "stop"

\* No session is active and the context of session n, if it has one, is closed.
BackToIdle(n) ==
    activeCtx = NULL /\ sessions[n].state \notin {"running", "suspended"}

\* C6 (as claimed): after a playJingle call followed by no further playJingle
\* or stopAudio call, the controller eventually returns to Idle: the
\* session's context is closed and the active reference is null.
C6_EventuallyIdle ==
    \A n \in 1..MaxSessions :
        [](JustPlayed(n) /\ []NoCallAfter(n) => <>BackToIdle(n))

\* The same for the calls whose set-up succeeded: their completion timer
\* eventually fires and tears the session down.
C6_EventuallyIdleWhenStarted ==
    \A n \in 1..MaxSessions :
        [](JustPlayed(n) /\ sessions[n].outcome = "ok" /\ []NoCallAfter(n)
              => <>(BackToIdle(n) /\ sessions[n].timer = "fired"))

\* C7: a promise returned by playJingle is resolved only when at least
\* durationSeconds + 200 ms have passed since the call, also for a session
\* that was stopped or superseded before.
C7_ResolveNotEarly ==
    \A i \in Ids :
        sessions[i].promise = "resolved"
            => sessions[i].age >= sessions[i].durationMs + GraceMs

\* What holds of every call: its promise is resolved only when the delay its
\* completion timer was armed with has passed, also for a session that was
\* stopped or superseded before.
C7_ResolveNotBeforeTimer ==
    \A i \in Ids :
        sessions[i].promise = "resolved"
            => /\ sessions[i].timer = "fired"
               /\ sessions[i].age >= sessions[i].timerDelay
               /\ sessions[i].timerDelay >= sessions[i].durationMs + GraceMs - 1

\* C8: when the AudioContext constructor throws, the call is rejected, no
\* session is active afterwards, no context is open, and the session active
\* before the call has been torn down.
C8_CtorFailureLeavesIdle ==
    (last.op = "play" /\ sessions[last.sess].outcome = "ctorFailed")
        => /\ sessions[last.sess].promise = "rejected"
           /\ activeCtx = NULL
           /\ OpenCtxs = {}
           /\ last.prevActive # NULL => TornDown(last.prevActive)

\* A playJingle call whose constructor threw was made while a session was
\* active.
C8_Witness ==
    /\ last.op = "play" /\ sessions[last.sess].outcome = "ctorFailed"
    /\ last.prevActive # NULL /\ sessions[last.prevActive].promise = "pending"

\* The positions of log that hold an event of one of the kinds.
Positions(log, kinds) == {i \in DOMAIN log : log[i].kind \in kinds}

\* Every position of before precedes every position of after.
AllBefore(before, after) == \A i \in before : \A j \in after : i < j

SoundKinds == {"melody", "bass", "pad", "kick", "snare", "hihat"}

\* C9: in every successful playJingle call all notes and drum triggers are
\* submitted before the fade-out, and the fade-out before the progress
\* notifier is started and the completion timer is armed.
C9_SubmissionOrder ==
    \A s \in Ids :
        LET log == sessions[s].log
            sounds == Positions(log, SoundKinds)
            fades == Positions(log, {"fade"})
            timers == Positions(log, {"notifier", "timer"})
        IN /\ AllBefore(sounds, fades)
           /\ AllBefore(fades, timers)
           /\ sessions[s].outcome = "ok"
                 => /\ Cardinality(fades) = 2
                    /\ Cardinality(Positions(log, {"timer"})) = 1

\* A call with a callback submitted notes of every voice and every drum.
C9_Witness ==
    \E s \in Ids :
        /\ sessions[s].outcome = "ok"
        /\ \A k \in SoundKinds \cup {"fade", "notifier", "timer"} :
              Positions(sessions[s].log, {k}) # {}

\* onTimeUpdate of session s is invoked in this step.
Reports(s) == last'.op = "tick" /\ last'.sess = s /\ last'.cb

\* C10: for a session that was not stopped or superseded, every report
\* (elapsed, total) has 0 <= elapsed <= total = the session's duration; a
\* tick that sees the audio clock at or past the duration reports
\* (total, total) and clears the notifier; reports never decrease, and a
\* cleared notifier reports no more.
C10_ProgressReports ==
    /\ []((last.op = "tick" /\ last.cb /\ ~TornDown(last.sess))
            => /\ 0 <= last.elapsed /\ last.elapsed <= last.total
               /\ last.total = sessions[last.sess].durationMs
               /\ sessions[last.sess].currentTime >= sessions[last.sess].durationMs
                     => /\ last.elapsed = last.total
                        /\ sessions[last.sess].interval = "cleared")
    /\ [][\A s \in Ids :
            (Reports(s) /\ ~TornDown(s))
                => /\ sessions[s].interval = "on"
                   /\ last'.elapsed >= sessions[s].lastElapsed]_vars

\* The notifier of the active session made its final report (total, total)
\* and cleared itself.
C10_Witness ==
    /\ last.op = "tick" /\ last.cb /\ activeCtx = last.sess
    /\ last.elapsed = last.total /\ last.total = ShortDurationMs
    /\ sessions[last.sess].interval = "cleared"

\* The sessions whose playJingle call read its parameters.
Started == {s \in Ids : sessions[s].outcome # "ctorFailed"}

\* The events of log of one of the kinds.
Events(log, kinds) == {log[i] : i \in Positions(log, kinds)}

\* The bar (4 beats of 100 centibeats) an offset lies in.
BarOf(time) == time \div 400

\* C11 (as claimed): every melody note ends inside the bar it starts in:
\* its start offset plus its duration is at most barStart + 4 beats, doubled
\* or not.
C11_MelodyInsideBar ==
    \A s \in Started :
        \A e \in Events(sessions[s].log, {"melody"}) :
            e.time + e.duration <= 400 * (BarOf(e.time) + 1)

\* C12: the number of bars n is the number of whole bars of 240 / T seconds
\* that fit into D, and n is what the drum triggers count: 2 kicks, 2 snares
\* and 8 hi-hats (7 closed, 1 open) in each bar and 2n, 2n, 8n in total;
\* T = 120 and D = 12 give 12 kicks, 12 snares and 48 hi-hats.
C12_BarsAndDrumCounts ==
    \A s \in Started :
        LET log == sessions[s].log
            kicks == Positions(log, {"kick"})
            n == Cardinality(kicks) \div 2
            InBar(kind, b, open) ==
                {i \in Positions(log, {kind}) : BarOf(log[i].time) = b /\ log[i].open = open}
        IN /\ Cardinality(kicks) = 2 * n
           /\ n * 240000 <= sessions[s].durationMs * sessions[s].bpm
           /\ sessions[s].durationMs * sessions[s].bpm < (n + 1) * 240000
           /\ Cardinality(Positions(log, {"snare"})) = 2 * n
           /\ Cardinality(Positions(log, {"hihat"})) = 8 * n
           /\ \A b \in 0..(n - 1) :
                 /\ Cardinality(InBar("kick", b, FALSE)) = 2
                 /\ Cardinality(InBar("snare", b, FALSE)) = 2
                 /\ Cardinality(InBar("hihat", b, FALSE)) = 7
                 /\ Cardinality(InBar("hihat", b, TRUE)) = 1
           /\ (sessions[s].bpm = 120 /\ sessions[s].durationMs = 12000)
                 => /\ Cardinality(kicks) = 12
                    /\ Cardinality(Positions(log, {"snare"})) = 12
                    /\ Cardinality(Positions(log, {"hihat"})) = 48

\* The drum triggers alone: the kicks, snares and hi-hats of every call are
\* 2, 2 and 8 (7 closed, 1 open) in each of the bars played.
C12_DrumCountsPerBar ==
    \A s \in Started :
        LET log == sessions[s].log
            n == Cardinality(Positions(log, {"kick"})) \div 2
            InBar(kind, b, open) ==
                {i \in Positions(log, {kind}) : BarOf(log[i].time) = b /\ log[i].open = open}
        IN /\ Cardinality(Positions(log, {"kick"})) = 2 * n
           /\ Cardinality(Positions(log, {"snare"})) = 2 * n
           /\ Cardinality(Positions(log, {"hihat"})) = 8 * n
           /\ \A b \in 0..(n - 1) :
                 /\ Cardinality(InBar("kick", b, FALSE)) = 2
                 /\ Cardinality(InBar("snare", b, FALSE)) = 2
                 /\ Cardinality(InBar("hihat", b, FALSE)) = 7
                 /\ Cardinality(InBar("hihat", b, TRUE)) = 1

\* C13: the drum triggers are exactly those of the grid: in every bar kicks
\* at beats 0 and 2, snares at beats 1 and 3, hi-hats at every half beat
\* i = 0..7, the one with i = 7 open and the others closed.
C13_DrumGrid ==
    \A s \in Started :
        LET log == sessions[s].log
            bars == 0..(Bars(sessions[s].bpm, sessions[s].durationMs) - 1)
        IN /\ Events(log, {"kick"})
                = {[kind |-> "kick", time |-> 400 * b + 100 * beat, open |-> FALSE] :
                       b \in bars, beat \in {0, 2}}
           /\ Events(log, {"snare"})
                = {[kind |-> "snare", time |-> 400 * b + 100 * beat, open |-> FALSE] :
                       b \in bars, beat \in {1, 3}}
           /\ Events(log, {"hihat"})
                = {[kind |-> "hihat", time |-> 400 * b + 50 * i, open |-> (i = 7)] :
                       b \in bars, i \in 0..7}
           /\ Cardinality(Positions(log, {"kick", "snare", "hihat"}))
                = 12 * Cardinality(bars)

\* An arrangement of several bars whose second bar ends with an open hi-hat.
C13_Witness ==
    \E s \in Started :
        /\ Bars(sessions[s].bpm, sessions[s].durationMs) >= 2
        /\ [kind |-> "hihat", time |-> 750, open |-> TRUE]
               \in Events(sessions[s].log, {"hihat"})

\* C14: on each of the 4 beats of every bar there is exactly one bass note,
\* an octave below the root, third, root, fifth of the scale (indices 0, 2,
\* 0, 3), with the profile's bass waveform and 0.85 beats long, whatever the
\* random draws; there is no other bass note.
C14_BassLine ==
    \A s \in Started :
        LET log == sessions[s].log
            profile == sessions[s].profile
            bars == 0..(Bars(sessions[s].bpm, sessions[s].durationMs) - 1)
            degree == [beat \in 0..3 |-> IF beat = 1 THEN 3 ELSE IF beat = 3 THEN 4 ELSE 1]
        IN /\ \A b \in bars, beat \in 0..3 :
                 \E i \in Positions(log, {"bass"}) :
                    /\ log[i].time = 400 * b + 100 * beat
                    /\ 2 * log[i].freq = profile.scale[degree[beat]]
                    /\ log[i].wave = profile.bassWave
                    /\ log[i].duration = 85
                    /\ \A j \in Positions(log, {"bass"}) :
                          log[j].time = log[i].time => j = i
           /\ Cardinality(Positions(log, {"bass"})) = 4 * Cardinality(bars)

\* Arrangements of several bars were made from a five-note and from a
\* six-note scale.
C14_Witness ==
    \E s \in Started :
        /\ Len(sessions[s].profile.scale) = 6
        /\ Cardinality(Positions(sessions[s].log, {"bass"})) >= 8
        /\ sessions[s].profile.bassWave = "sawtooth"

\* C18: a call whose tempo is too slow for a single bar (one bar is longer
\* than the duration) schedules no note and no drum trigger and does not
\* throw: it schedules the fade-out, starts the notifier if it has a
\* callback, arms the completion timer with the usual delay, and when the
\* timer fires the promise is resolved and the context closed.
C18_NoBars ==
    \A s \in Started :
        sessions[s].durationMs * sessions[s].bpm < 240000
            => LET log == sessions[s].log IN
               /\ Positions(log, SoundKinds) = {}
               /\ sessions[s].outcome = "ok"
               /\ Cardinality(Positions(log, {"fade"})) = 2
               /\ Events(log, {"timer"})
                     = {[kind |-> "timer", delay |-> sessions[s].timerDelay]}
               /\ sessions[s].timer # "none"
               /\ sessions[s].timerDelay >= sessions[s].durationMs + GraceMs - 1
               /\ (Positions(log, {"notifier"}) # {}) = (sessions[s].interval # "none")
               /\ sessions[s].promise # "rejected"
               /\ sessions[s].timer = "fired"
                     => /\ sessions[s].promise = "resolved"
                        /\ sessions[s].state = "closed"
                        /\ sessions[s].closeCalls = 1

\* The same for the calls whose fade-out does not throw: a call at 10 bpm
\* plays its 12 s of silence, and its timer closes the context and resolves
\* the promise.
C18_NoBarsWhenSetUp ==
    \A s \in Started :
        (sessions[s].durationMs * sessions[s].bpm < 240000 /\ sessions[s].outcome = "ok")
            => LET log == sessions[s].log IN
               /\ Positions(log, SoundKinds) = {}
               /\ Cardinality(Positions(log, {"fade"})) = 2
               /\ sessions[s].timer # "none"
               /\ sessions[s].timerDelay >= sessions[s].durationMs + GraceMs - 1
               /\ sessions[s].promise # "rejected"
               /\ sessions[s].timer = "fired"
                     => /\ sessions[s].promise = "resolved"
                        /\ sessions[s].state = "closed"
                        /\ sessions[s].closeCalls = 1

\* C19: for a tempo outside 60..180 the arrangement is well formed: the bar
\* count is not negative, every note has a positive duration and frequency,
\* and every note and drum trigger starts at an offset in [0, durationSeconds).
C19_WellFormed ==
    \A s \in Started :
        sessions[s].bpm \notin 60..180
            => LET log == sessions[s].log IN
               /\ Bars(sessions[s].bpm, sessions[s].durationMs) >= 0
               /\ \A e \in Events(log, {"melody", "bass", "pad"}) :
                     e.duration > 0 /\ e.freq > 0
               /\ \A e \in Events(log, SoundKinds) :
                     /\ 0 <= e.time
                     /\ e.time * 600 < sessions[s].durationMs * sessions[s].bpm

\* A 12 s jingle at 200 bpm was arranged up to its tenth bar.
C19_Witness ==
    \E s \in Started :
        /\ sessions[s].bpm = 200 /\ sessions[s].durationMs = 12000
        /\ \E e \in Events(sessions[s].log, {"melody"}) : BarOf(e.time) = 9
        /\ \E e \in Events(sessions[s].log, {"hihat"}) : e.time = 3950

\* The keyword groups in the order of their tests, and their profiles.
KeywordGroups ==
    <<{KwDark, KwCrime, KwSerious}, {KwJazz, KwLofi, KwChill},
      {KwEnergetic, KwUpbeat, KwPop}, {KwTechno, KwElectronic, KwCyber}>>

GroupProfiles == <<DarkProfile, JazzProfile, PopProfile, TechnoProfile>>

\* The lower-cased concatenation of the labels of session s.
LoweredLabels(s) ==
    toLowerCase(sessions[s].musicalStyle \o <<" ">> \o sessions[s].tone)

\* The lower-cased labels have a keyword of group g.
MatchesIn(lowered, g) ==
    \E kw \in KeywordGroups[g] : includes(lowered, kw)

\* The labels of session s have a keyword of group g.
Matches(s, g) == MatchesIn(LoweredLabels(s), g)

\* C15: the profile is that of the first keyword group, in the order dark,
\* jazz, pop, techno, of which the lower-cased labels contain a keyword;
\* ("Dark Industrial Techno", "Serious") gets the dark profile with
\* reverbAmount 0.6, not the techno profile.
C15_FirstGroupWins ==
    \A s \in Started :
        /\ LET lowered == LoweredLabels(s)
           IN \A g \in 1..4 :
                  (MatchesIn(lowered, g) /\ \A h \in 1..(g - 1) : ~MatchesIn(lowered, h))
                      => sessions[s].profile = GroupProfiles[g]
        /\ (sessions[s].musicalStyle = StrDarkIndustrialTechno /\ sessions[s].tone = StrSerious)
              => /\ sessions[s].profile.reverbAmount = 60
                 /\ sessions[s].profile.bassWave = "square"
                 /\ sessions[s].profile # TechnoProfile

\* A profile was resolved for ("Dark Industrial Techno", "Serious"), whose
\* labels have keywords of the dark and of the techno group.
C15_Witness ==
    \E s \in Started :
        /\ sessions[s].musicalStyle = StrDarkIndustrialTechno /\ sessions[s].tone = StrSerious
        /\ Matches(s, 1) /\ Matches(s, 4)
        /\ sessions[s].profile = DarkProfile

\* C16: every pair of labels gets a profile, with a scale of 5 or 6
\* frequencies and a reverbAmount in [0, 1]; labels with none of the twelve
\* keywords get exactly the default profile: scale C4 E4 G4 A4 C5, lead
\* sine, bass triangle, reverb 0.45.
C16_TotalWithDefault ==
    \A s \in Started :
        /\ Len(sessions[s].profile.scale) \in {5, 6}
        /\ \A i \in 1..Len(sessions[s].profile.scale) : sessions[s].profile.scale[i] > 0
        /\ sessions[s].profile.reverbAmount \in 0..100
        /\ (LET lowered == LoweredLabels(s) IN \A g \in 1..4 : ~MatchesIn(lowered, g))
              => sessions[s].profile
                    = [scale |-> <<NOTE_FREQS.C4, NOTE_FREQS.E4, NOTE_FREQS.G4,
                                   NOTE_FREQS.A4, NOTE_FREQS.C5>>,
                       wave |-> "sine", bassWave |-> "triangle", reverbAmount |-> 45]

\* A profile was resolved for two empty labels.
C16_Witness ==
    \E s \in Started :
        /\ sessions[s].musicalStyle = StrEmpty /\ sessions[s].tone = StrEmpty
        /\ sessions[s].profile.wave = "sine"

\* C17: generateWaveformData(bpm, n) returns exactly n values, each in
\* [0.08, 1.0], and a call changes neither the active reference nor any
\* session.
C17_WaveformData ==
    /\ [](/\ Len(page.waveData) = page.waveReq.bars
          /\ \A i \in 1..Len(page.waveData) :
                80 <= page.waveData[i] /\ page.waveData[i] <= 1000)
    /\ [][last'.op = "waveform"
            => activeCtx' = activeCtx /\ sessions' = sessions]_vars

\* generateWaveformData returned its largest number of samples, the first
\* of them raised to the floor 0.08, while a session was active.
C17_Witness ==
    /\ last.op = "waveform" /\ activeCtx # NULL
    /\ page.waveReq.bars = MaxSamples /\ Len(page.waveData) = MaxSamples
    /\ page.waveData[1] = 80
    /\ \E i \in 2..MaxSamples : page.waveData[i] > 80

\* C20: the bpm of every payload of generateJingle is a whole number in
\* [60, 180], and 120 when the model's bpm is absent, zero or no number; so
\* is the tempo of every playJingle call of the page.
C20_BpmClamped ==
    /\ page.result # NoResult
          => /\ page.result.bpm % 10 = 0
             /\ 600 <= page.result.bpm /\ page.result.bpm <= 1800
             /\ page.parsed \in {Absent, JsonNumber(0), JsonText}
                   => page.result.bpm = 1200
    /\ \A s \in Started : sessions[s].bpm \in 60..180

\* The page played a result whose tempo the model gave as 200.
C20_Witness ==
    /\ page.result # NoResult /\ page.parsed = JsonNumber(2000)
    /\ \E s \in Started : sessions[s].bpm = 180 /\ sessions[s].state = "running"

\* The setInterval callback of session s runs in this step.
Ticks(s) == last'.op = "tick" /\ last'.sess = s

\* C24: when stopAudio() has torn down the session and no playJingle call
\* followed, the session's next tick clears the interval without invoking
\* the callback, and a cleared interval never ticks again.
C24_StopThenTickClears ==
    [][\A s \in Ids :
          /\ (Ticks(s) /\ s = Len(sessions) /\ TornDown(s))
                => ~last'.cb /\ sessions'[s].interval = "cleared"
          /\ sessions[s].interval = "cleared"
                => ~Ticks(s) /\ sessions'[s].interval = "cleared"]_vars

\* The last session was stopped by stopAudio() and its next tick cleared the
\* interval without a report.
C24_Witness ==
    /\ last.op = "tick" /\ ~last.cb /\ last.sess = Len(sessions)
    /\ last.prevActive = NULL /\ TornDown(last.sess)
    /\ sessions[last.sess].interval = "cleared"

\* C26 (as claimed): when a set-up step throws after the context was created
\* and stored as the active one, the call rejects with no context left open
\* and no active session.
C26_SetupFailureLeavesIdle ==
    (last.op = "play" /\ sessions[last.sess].outcome = "setupFailed")
        => /\ sessions[last.sess].promise = "rejected"
           /\ activeCtx = NULL
           /\ OpenCtxs = {}

\* No set-up step of any call has failed.
NoSetupFailure == \A s \in Ids : sessions[s].outcome # "setupFailed"

\* Every timer that was armed has fired.
AllTimersFired == \A s \in Ids : sessions[s].timer # "armed"

\* The n-th playJingle call was made and its set-up succeeded.
SetUp(n) == IF n \in Ids THEN sessions[n].outcome = "ok" ELSE FALSE

\* The context of the n-th call has been closed, by one call of close().
ClosedOnce(n) ==
    IF n \in Ids THEN sessions[n].state = "closed" /\ sessions[n].closeCalls = 1 ELSE FALSE

\* The promise of the n-th call has been resolved.
Resolved(n) == IF n \in Ids THEN sessions[n].promise = "resolved" ELSE FALSE

\* C27: as long as no set-up step fails, the calls made (finitely many) reach
\* a point from which every context that was created stays closed, by one
\* call of close(); no context is ever closed twice, and when all timers have
\* fired there is no active session.
C27_NoLeak ==
    /\ <>[](NoSetupFailure => \A n \in 1..MaxSessions : SetUp(n) => ClosedOnce(n))
    /\ [](NoSetupFailure => \A s \in Ids : sessions[s].closeCalls <= 1)
    /\ []((NoSetupFailure /\ AllTimersFired) => activeCtx = NULL /\ OpenCtxs = {})

\* As many contexts as the model has were created, one closed by a superseding playJingle or
\* stopAudio() and one by its own timer, all timers have fired, and every
\* context is closed.
C27_Witness ==
    /\ NoSetupFailure /\ AllTimersFired /\ Len(sessions) = MaxSessions
    /\ \E a, b \in Ids : /\ sessions[a].tornBy = "stopAudio"
                         /\ sessions[b].tornBy = "timer"
    /\ \A s \in Ids : sessions[s].outcome = "ok" => sessions[s].state = "closed"

\* C28: the calls made (finitely many) reach a point from which the promise
\* of every call whose set-up succeeded is resolved, also when the session
\* was stopped or superseded; it is resolved once, by the single firing of
\* the completion timer, and never rejected.
C28_PromiseResolvesOnce ==
    /\ <>[](\A n \in 1..MaxSessions : SetUp(n) => Resolved(n))
    /\ [](\A s \in Ids : sessions[s].outcome = "ok" => sessions[s].promise # "rejected")
    /\ [][\A s \in Ids :
            /\ sessions[s].promise = "resolved"
                  => sessions'[s].promise = "resolved" /\ sessions'[s].timer = "fired"
            /\ (sessions[s].promise = "pending" /\ sessions'[s].promise = "resolved")
                  => last'.op = "timer" /\ last'.sess = s]_vars

\* The promise of a session that was superseded before its timer fired has
\* resolved.
C28_Witness ==
    \E s \in Ids :
        /\ s < Len(sessions) /\ TornDown(s)
        /\ sessions[s].promise = "resolved" /\ sessions[s].timer = "fired"

\* C29 (as claimed): the interval of a superseded session is cleared no
\* later than its first tick after the superseding call: a tick of a session
\* whose context a later playJingle has closed clears the interval.
C29_IntervalTerminates ==
    [][\A s \in Ids :
          (Ticks(s) /\ s < Len(sessions) /\ TornDown(s))
              => sessions'[s].interval = "cleared"]_vars

\* C25: in the page, isPlaying is true whenever an audio session is active:
\* the promise of an earlier, stopped call resolving later does not set it to
\* false while a newer session plays.
C25_PlayingWhileActive ==
    (/\ activeCtx # NULL
     /\ sessions[activeCtx].state = "running"
     /\ sessions[activeCtx].currentTime < sessions[activeCtx].durationMs) => page.isPlaying

\* C25, second part: the finally block of a stopped call never resets the
\* progress of a newer session that is playing.
C25_StaleFinallyKeepsProgress ==
    [][\A s \in Ids :
          (last'.op = "timer" /\ last'.sess = s /\ activeCtx' # NULL /\ activeCtx' # s)
              => page'.isPlaying = page.isPlaying /\ page'.audioProgress = page.audioProgress]_vars

\* The text contains a blocked term, in any letter case.
Blocked(text) ==
    \E i \in 1..Len(BLOCKED_TERMS) :
        \E k \in 0..(Len(text) - Len(BLOCKED_TERMS[i])) :
            \A j \in 1..Len(BLOCKED_TERMS[i]) :
                LowerChar(text[k + j]) = <<BLOCKED_TERMS[i][j]>>

\* One of the three sanitized inputs of the call contains a blocked term.
BlockedInput(call) ==
    \/ Blocked(sanitize(call.input.podcastName))
    \/ Blocked(sanitize(call.input.theme))
    \/ Blocked(sanitize(call.input.tone))

\* The prompt of the call reached Gemini.
ReachedGemini(call) == call.outcome \in {"sent", "returned", "failed"}

\* C21: with an API key, a generateJingle call one of whose sanitized inputs
\* contains a blocked term fails with SAFETY_VIOLATION and its prompt never
\* reaches Gemini; the three texts of every prompt that reaches Gemini are
\* free of blocked terms.
C21_BlockedNeverSent ==
    /\ []((page.request.outcome # "none" /\ page.request.hasKey /\ BlockedInput(page.request))
             => page.request.outcome = "SAFETY_VIOLATION")
    /\ [](ReachedGemini(page.request)
             => /\ ~Blocked(page.request.voiceName)
                /\ ~Blocked(page.request.theme)
                /\ ~Blocked(page.request.tone))
    /\ [][(page.request.outcome = "SAFETY_VIOLATION" /\ page'.request.input = page.request.input)
             => ~ReachedGemini(page'.request)]_vars

\* A call with a key was refused for a name that spells a blocked term, with
\* a capital and only once the markup characters are stripped.
C21_Witness ==
    /\ page.request.outcome = "SAFETY_VIOLATION" /\ page.request.hasKey
    /\ page.request.input.podcastName = StrKillerBeesMarkup
    /\ ~Blocked(page.request.input.podcastName)
    /\ ~Blocked(page.request.input.theme) /\ ~Blocked(page.request.input.tone)

\* C22: the podcast name sent to Gemini, and returned as podcast_name, has at
\* most 30 characters.
C22_VoiceNameAtMost30 ==
    /\ Len(page.request.voiceName) <= 30
    /\ Len(page.request.payload.podcast_name) <= 30

\* The selection has no tone twice.
NoDuplicates(tones) ==
    \A i, j \in 1..Len(tones) : tones[i] = tones[j] => i = j

\* The tone is in the selection.
Selected(tones, tone) == \E i \in 1..Len(tones) : tones[i] = tone

\* C23: the tone selection has at most four entries and no duplicates; a click
\* on a selected chip removes it, a click on an unselected chip adds it while
\* fewer than four are selected, and with four selected (a fifth) it leaves
\* the selection as it is.
C23_ToneSelection ==
    /\ [](Len(page.tones) <= 4 /\ NoDuplicates(page.tones))
    /\ [][last'.op = "toggle" =>
            LET tone == page'.chip
            IN /\ Selected(page.tones, tone)
                    => /\ ~Selected(page'.tones, tone)
                       /\ \A t \in Chips : t # tone =>
                              (Selected(page'.tones, t) <=> Selected(page.tones, t))
               /\ (~Selected(page.tones, tone) /\ Len(page.tones) < 4)
                    => page'.tones = Append(page.tones, tone)
               /\ (~Selected(page.tones, tone) /\ Len(page.tones) >= 4)
                    => page'.tones = page.tones]_vars

\* Four tones are selected and the last click was on a fifth chip.
C23_Witness ==
    /\ last.op = "toggle" /\ Len(page.tones) = 4
    /\ ~Selected(page.tones, page.chip)

====
